---- MODULE Spec2Model ----
(***************************************************************************)
(* A model of the xcomp dependency-injection container (Phathdt/xcomp):    *)
(* Container (Register, RegisterSingleton, Get, Inject, ListServices),     *)
(* lazyService (sync.Once-guarded factory), and RegisterModule over a      *)
(* Module import graph.  Every goroutine is a thread with a call stack of  *)
(* frames; one step of a frame is one action.                              *)
(***************************************************************************)
EXTENDS Naturals, Integers, Sequences, FiniteSets, TLC

VARIABLES
    services,  \* Container.services: name -> entry (kind "absent" = no key)
    lazies,    \* heap of *lazyService objects, addressed by index
    mutex,     \* Container.mutex (sync.RWMutex): writer and readers
    stack,     \* stack[t]: call stack of goroutine t, top is the last frame
    ret,       \* ret[t]: the last completed top-level call of t and its result
    calls,     \* number of top-level calls started so far
    nalloc,    \* number of factory invocations so far (fresh instance ids)
    bind,      \* history: per name, the providers written to the map, in order
    got,       \* history: <<t, id, v>>: a Get of t through lazyService id returned v
    modules,   \* the Module graph handed to RegisterModule
    root,      \* the module the application registers
    heap,      \* ModuleBuilders, the Modules they built, and the slices' arrays
    order      \* an Order entity of the example application

vars == <<services, lazies, mutex, stack, ret, calls, nalloc, bind, got, modules, root, heap, order>>

-----------------------------------------------------------------------------
(* Bounds *)

\* top-level calls into the container per behaviour
MaxCalls == 3

\* calls of ModuleBuilder methods (and NewModule) per behaviour
MaxOps == 6

\* frames a goroutine's stack may hold before the Go runtime ends the
\* process with "stack overflow" (the runtime's limit, scaled down)
MaxDepth == 6

\* calls of the methods of an Order per behaviour
MaxOrderCalls == 5

\* the goroutines that use the container
Threads == {1, 2}

\* the ModuleBuilders the application makes
Builders == {1}

\* the service names in use
Names == {"A", "B"}

-----------------------------------------------------------------------------
(* Values and their dynamic types *)

Nil == [src |-> "nil", n |-> 0]

Static(s) == [src |-> s, n |-> 0]

Instance(f, k) == [src |-> f, n |-> k]

\* Dynamic (concrete) type of a value, by the constructor that made it.
TypeOf(v) ==
    CASE v.src = "s1" -> "T1"
      [] v.src = "s2" -> "T2"
      [] v.src = "fLeaf" -> "T1"
      [] v.src = "fDep" -> "T2"
      [] v.src = "fWire" -> "T2"
      [] v.src = "s3" -> "T1"
      [] v.src = "fThird" -> "T1"
      [] v.src = "p1" -> "T1"
      [] v.src = "p2" -> "T2"
      [] v.src = "fInj" -> "T1"
      [] v.src = "fBack" -> "T1"
      [] OTHER -> "nil"

Interfaces == {"I1", "any"}

\* the method sets: T1 implements I1, every type implements any
Implements(vt, ft) ==
    \/ ft = "any"
    \/ ft = "I1" /\ vt = "T1"

\* fault model: nominal type equality instead of assignability
AssignableExact(vt, ft) == vt = ft

\* reflect.Type.AssignableTo for a concrete dynamic type vt and a field type ft
AssignableTo(vt, ft) ==
    \/ vt = ft
    \/ ft \in Interfaces /\ Implements(vt, ft)

-----------------------------------------------------------------------------
(* Target structs of Inject: per field its name, its inject tag ("" = none), *)
(* its declared type and whether reflection may set it (exported)           *)

Field(name, tag, type, canSet) ==
    [name |-> name, tag |-> tag, type |-> type, canSet |-> canSet]

StructType(ty) ==
    CASE ty = "S1" -> <<Field("Svc", "A", "I1", TRUE),
                        Field("Count", "", "T1", TRUE),
                        Field("Repo", "B", "T2", TRUE)>>
      [] ty = "S2" -> <<Field("ctrl", "A", "I1", FALSE),
                        Field("Any", "B", "any", TRUE),
                        Field("Impl", "A", "T1", TRUE)>>
      [] ty = "S3" -> <<Field("Log", "", "T1", TRUE),
                        Field("Dep", "B", "T2", TRUE)>>
      [] OTHER -> <<>>

NumField(ty) == Len(StructType(ty))

\* the zero value of a struct type: every field nil
ZeroFields(ty) == [k \in 1..NumField(ty) |-> Nil]

-----------------------------------------------------------------------------
(* Results and frames *)

NoErr == [kind |-> "none", svc |-> "", field |-> ""]

Err(k, s, f) == [kind |-> k, svc |-> s, field |-> f]

Res(v, e, ns) == [val |-> v, err |-> e, names |-> ns]

NoRes == Res(Nil, NoErr, <<>>)

\* A fresh frame of operation op.  name: service name; f: factory; val: value
\* argument; ty: struct type of an Inject target; fields: the target's fields.
Frame(op, name, f, val, ty, fields, m) ==
    [op |-> op, pc |-> "start", name |-> name, f |-> f, val |-> val,
     id |-> 0, i |-> 1, j |-> 1, m |-> m, ty |-> ty, fields |-> fields,
     ptr |-> TRUE, nilptr |-> FALSE, orig |-> fields, gots |-> <<>>, res |-> NoRes,
     ver |-> 0]

GetFrame(name) == Frame("Get", name, "", Nil, "", <<>>, 0)

RegisterFrame(name, v) == Frame("Register", name, "", v, "", <<>>, 0)

RegisterSingletonFrame(name, f) == Frame("RegisterSingleton", name, f, Nil, "", <<>>, 0)

ListServicesFrame == Frame("ListServices", "", "", Nil, "", <<>>, 0)

\* Inject(target): target is a struct of type ty with the given field values,
\* passed by pointer (ptr) or by value
InjectFrame(ty, fields, ptr) ==
    [Frame("Inject", "", "", Nil, ty, fields, 0) EXCEPT !.ptr = ptr]

\* GetTyped(name, target): target is a pointer to a variable of type ty that
\* holds cell, or a nil pointer of that pointer type (nilptr), or no pointer
GetTypedFrame(name, ty, cell, ptr, nilptr) ==
    [Frame("GetTyped", name, "", Nil, ty, <<cell>>, 0) EXCEPT !.ptr = ptr, !.nilptr = nilptr]

RegisterModuleFrame(m) == Frame("RegisterModule", "", "", Nil, "", <<>>, m)

FactoryFrame(f, id) == [Frame("factory", "", f, Nil, "", <<>>, 0) EXCEPT !.id = id]

NoRet == [done |-> FALSE, fr |-> GetFrame(""), res |-> NoRes]

Top(t) == stack[t][Len(stack[t])]

Running(t) == stack[t] # <<>>

-----------------------------------------------------------------------------
(* Factories: what a factory function does with the container it is given *)

\* calls: the container calls the factory makes, in order; end: how it ends
\* (it returns a new value or nil, it panics, or it never returns)
Script(f) ==
    CASE f = "fLeaf" -> [calls |-> <<>>, end |-> "value"]
      [] f = "fDep" -> [calls |-> <<GetFrame("B")>>, end |-> "value"]
      [] f = "fThird" -> [calls |-> <<>>, end |-> "value"]
      [] f = "fWire" -> [calls |-> <<RegisterFrame("B", Static("s2")),
                                    RegisterSingletonFrame("B", "fLeaf"),
                                    ListServicesFrame,
                                    InjectFrame("S2", ZeroFields("S2"), TRUE)>>,
                         end |-> "value"]
      [] f = "fHang" -> [calls |-> <<GetFrame("B")>>, end |-> "hang"]
      [] f = "fPanic" -> [calls |-> <<>>, end |-> "panic"]
      [] f = "fNil" -> [calls |-> <<>>, end |-> "nil"]
      [] f = "fInj" -> [calls |-> <<InjectFrame("S3", ZeroFields("S3"), TRUE)>>,
                        end |-> "value"]
      [] f = "fBack" -> [calls |-> <<GetFrame("A")>>, end |-> "value"]
      [] OTHER -> [calls |-> <<>>, end |-> "nil"]

-----------------------------------------------------------------------------
(* Container: the registry *)

Absent == [kind |-> "absent", val |-> Nil, id |-> 0]

ValEntry(v) == [kind |-> "val", val |-> v, id |-> 0]

LazyEntry(id) == [kind |-> "lazy", val |-> Nil, id |-> id]

\* fault model: the factory is run when the entry is created
NewLazyEager(f) ==
    [factory |-> f, instance |-> Instance(f, 0), once |-> "done", runs |-> 1, aborted |-> 0]

\* &lazyService{factory: factory, container: c}; runs counts the invocations
\* of the factory and aborted names the goroutine whose invocation panicked
NewLazy(f) == [factory |-> f, instance |-> Nil, once |-> "idle", runs |-> 0, aborted |-> 0]

\* a provider as the history records it: a static value, or a factory with
\* the lazyService (id) made for it; stamp: the instances made before it
NoProv == [kind |-> "none", val |-> Nil, f |-> "", stamp |-> 0, id |-> 0]

\* the history of a name after one more write, of provider p
Bind(b, p) == [ver |-> b.ver + 1, prov |-> p, hist |-> Append(b.hist, p)]

\* NewContainer()
NewContainer ==
    [services |-> [n \in Names |-> Absent], lazies |-> <<>>,
     bind |-> [n \in Names |-> [ver |-> 0, prov |-> NoProv, hist |-> <<>>]]]

Registry == [services |-> services, lazies |-> lazies, bind |-> bind]

\* fault model: a Register that keeps the binding a name already has
RegisterKeepFirst(r, name, v) ==
    [r EXCEPT !.services[name] = IF @.kind = "absent" THEN ValEntry(v) ELSE @,
              !.bind[name] = Bind(@, [kind |-> "val", val |-> v, f |-> "",
                                      stamp |-> nalloc, id |-> 0])]

\* c.services[name] = service
DoRegister(r, name, v) ==
    [r EXCEPT !.services[name] = ValEntry(v),
              !.bind[name] = Bind(@, [kind |-> "val", val |-> v, f |-> "",
                                      stamp |-> nalloc, id |-> 0])]

\* fault model: a name that is bound to a lazyService keeps it (and what it
\* has cached) when the name is registered again
DoRegisterSingletonReusing(r, name, f) ==
    IF r.services[name].kind = "lazy"
    THEN [r EXCEPT !.bind[name] = Bind(@, [kind |-> "fac", val |-> Nil, f |-> f,
                                           stamp |-> nalloc, id |-> r.services[name].id])]
    ELSE [r EXCEPT !.services[name] = LazyEntry(Len(r.lazies) + 1),
                   !.lazies = Append(r.lazies, NewLazy(f)),
                   !.bind[name] = Bind(@, [kind |-> "fac", val |-> Nil, f |-> f,
                                           stamp |-> nalloc, id |-> Len(r.lazies) + 1])]

\* c.services[name] = &lazyService{...}
DoRegisterSingleton(r, name, f) ==
    [r EXCEPT !.services[name] = LazyEntry(Len(r.lazies) + 1),
              !.lazies = Append(r.lazies, NewLazy(f)),
              !.bind[name] = Bind(@, [kind |-> "fac", val |-> Nil, f |-> f,
                                      stamp |-> nalloc, id |-> Len(r.lazies) + 1])]

SetRegistry(r) ==
    /\ services' = r.services
    /\ lazies' = r.lazies
    /\ bind' = r.bind

-----------------------------------------------------------------------------
(* The Order entity: its status and its items.  calls, last and err record  *)
(* the number of method calls made, the last method called and the error it *)
(* returned ("" is nil); UpdatedAt and the totals are left out.  The       *)
(* quantities of a bounded number of calls stay far inside int32           *)

\* NewOrder(customerID): Status pending, no items
NewOrder ==
    [Status |-> "pending", OrderItems |-> <<>>, calls |-> 0, last |-> "", err |-> ""]

\* fault model: an order may be modified until it is shipped
canBeModifiedBeforeShipping(o) == o.Status \in {"pending", "confirmed"}

\* return o.Status == OrderStatusPending
canBeModified(o) == o.Status = "pending"

\* the index of the first item of product p in items, 0 if there is none
\* (for _, item := range o.OrderItems { if item.ProductID == productID ...)
ItemOf(items, p) ==
    LET S == {k \in 1..Len(items) : items[k].ProductID = p}
    IN IF S = {} THEN 0 ELSE CHOOSE k \in S : \A l \in S : k <= l

\* a method call on the order ends: the order is o, the method returned err
Called(o, method, err) ==
    /\ order.calls < MaxOrderCalls
    /\ order' = [o EXCEPT !.calls = order.calls + 1, !.last = method, !.err = err]
    /\ UNCHANGED <<services, lazies, mutex, stack, ret, calls, nalloc, bind, got,
                   modules, root, heap>>

AddItem(productID, quantity, unitPrice) ==
    LET k == ItemOf(order.OrderItems, productID)
    IN IF quantity <= 0 THEN Called(order, "AddItem", "ErrOrderItemQuantityInvalid")
       ELSE IF unitPrice <= 0 THEN Called(order, "AddItem", "ErrOrderItemPriceInvalid")
       ELSE IF ~canBeModified(order) THEN Called(order, "AddItem", "ErrOrderCannotBeModified")
       ELSE IF k # 0
       THEN Called([order EXCEPT
                       !.OrderItems[k].Quantity = @ + quantity,
                       !.OrderItems[k].TotalPrice =
                           (order.OrderItems[k].Quantity + quantity)
                           * order.OrderItems[k].UnitPrice],
                   "AddItem", "")
       ELSE Called([order EXCEPT
                       !.OrderItems = Append(@, [ProductID |-> productID,
                                                 Quantity |-> quantity,
                                                 UnitPrice |-> unitPrice,
                                                 TotalPrice |-> quantity * unitPrice])],
                   "AddItem", "")

RemoveItem(productID) ==
    LET k == ItemOf(order.OrderItems, productID)
    IN IF ~canBeModified(order) THEN Called(order, "RemoveItem", "ErrOrderCannotBeModified")
       ELSE IF k # 0
       THEN Called([order EXCEPT
                       !.OrderItems = SubSeq(@, 1, k - 1) \o SubSeq(@, k + 1, Len(@))],
                   "RemoveItem", "")
       ELSE Called(order, "RemoveItem", "ErrOrderItemNotFound")

UpdateItemQuantity(productID, newQuantity) ==
    LET k == ItemOf(order.OrderItems, productID)
    IN IF newQuantity <= 0
       THEN Called(order, "UpdateItemQuantity", "ErrOrderItemQuantityInvalid")
       ELSE IF ~canBeModified(order)
       THEN Called(order, "UpdateItemQuantity", "ErrOrderCannotBeModified")
       ELSE IF k # 0
       THEN Called([order EXCEPT
                       !.OrderItems[k].Quantity = newQuantity,
                       !.OrderItems[k].TotalPrice =
                           newQuantity * order.OrderItems[k].UnitPrice],
                   "UpdateItemQuantity", "")
       ELSE Called(order, "UpdateItemQuantity", "ErrOrderItemNotFound")

ConfirmOrder ==
    IF order.Status # "pending"
    THEN Called(order, "ConfirmOrder", "ErrOrderCannotBeModified")
    ELSE Called([order EXCEPT !.Status = "confirmed"], "ConfirmOrder", "")

ShipOrder ==
    IF order.Status # "confirmed"
    THEN Called(order, "ShipOrder", "ErrOrderCannotBeModified")
    ELSE Called([order EXCEPT !.Status = "shipped"], "ShipOrder", "")

DeliverOrder ==
    IF order.Status # "shipped"
    THEN Called(order, "DeliverOrder", "ErrOrderCannotBeModified")
    ELSE Called([order EXCEPT !.Status = "delivered"], "DeliverOrder", "")

CancelOrder ==
    IF order.Status = "cancelled"
    THEN Called(order, "CancelOrder", "ErrOrderAlreadyCancelled")
    ELSE IF order.Status = "delivered"
    THEN Called(order, "CancelOrder", "ErrOrderAlreadyCompleted")
    ELSE Called([order EXCEPT !.Status = "cancelled"], "CancelOrder", "")

-----------------------------------------------------------------------------
(* Call and return *)

\* push a callee frame on t's stack; the caller's frame becomes caller
Push(t, caller, fr) ==
    LET s == stack[t]
        n == Len(s)
        callee == [fr EXCEPT !.ver = IF fr.name \in Names THEN bind[fr.name].ver ELSE 0]
    IN stack' = [stack EXCEPT ![t] = Append([s EXCEPT ![n] = caller], callee)]

\* the top frame of t, as fr, returns res to its caller (or to ret[t])
Return(t, fr, res) ==
    LET s == stack[t]
        n == Len(s)
    IN IF n = 1
       THEN /\ stack' = [stack EXCEPT ![t] = <<>>]
            /\ ret' = [ret EXCEPT ![t] = [done |-> TRUE, fr |-> fr, res |-> res]]
       ELSE /\ stack' = [stack EXCEPT ![t] = [SubSeq(s, 1, n - 1) EXCEPT ![n - 1].res = res]]
            /\ UNCHANGED ret

SetTop(t, fr) == stack' = [stack EXCEPT ![t][Len(stack[t])] = fr]

\* a goroutine with nothing to do calls an operation of the container
Call(t, menu) ==
    /\ ~Running(t)
    /\ calls < MaxCalls
    /\ \E fr \in menu :
          stack' = [stack EXCEPT ![t] =
                      <<[fr EXCEPT !.ver = IF fr.name \in Names THEN bind[fr.name].ver ELSE 0]>>]
    /\ calls' = calls + 1
    /\ ret' = [ret EXCEPT ![t] = NoRet]
    /\ UNCHANGED <<services, lazies, mutex, nalloc, bind, got, modules, root, heap, order>>

-----------------------------------------------------------------------------
(* sync.RWMutex: Lock waits for the writer and all readers to leave, RLock  *)
(* for the writer.  No Container method calls another while it holds the     *)
(* mutex, so the queueing of readers behind a waiting writer is left out.    *)

CanLock == mutex.writer = 0 /\ mutex.readers = {}

CanRLock == mutex.writer = 0

\* c.mutex.Lock() of Register and RegisterSingleton
Lock(t) ==
    /\ Running(t)
    /\ Top(t).op \in {"Register", "RegisterSingleton"}
    /\ Top(t).pc = "start"
    /\ CanLock
    /\ mutex' = [mutex EXCEPT !.writer = t]
    /\ SetTop(t, [Top(t) EXCEPT !.pc = "locked"])
    /\ UNCHANGED <<services, lazies, ret, calls, nalloc, bind, got, modules, root, heap, order>>

\* c.mutex.RLock() of Get and ListServices
RLock(t) ==
    /\ Running(t)
    /\ Top(t).op \in {"Get", "ListServices"}
    /\ Top(t).pc = "start"
    /\ CanRLock
    /\ mutex' = [mutex EXCEPT !.readers = @ \cup {t}]
    /\ SetTop(t, [Top(t) EXCEPT !.pc = "locked"])
    /\ UNCHANGED <<services, lazies, ret, calls, nalloc, bind, got, modules, root, heap, order>>

-----------------------------------------------------------------------------
(* Register, RegisterSingleton *)

\* fault model: Register of a nil service leaves the map as it is
RegisterIgnoringNil(t) ==
    /\ Running(t)
    /\ Top(t).op = "Register"
    /\ Top(t).pc = "locked"
    /\ IF Top(t).val = Nil
       THEN SetRegistry([Registry EXCEPT !.bind = DoRegister(Registry, Top(t).name, Nil).bind])
       ELSE SetRegistry(DoRegister(Registry, Top(t).name, Top(t).val))
    /\ mutex' = [mutex EXCEPT !.writer = 0]
    /\ Return(t, Top(t), NoRes)
    /\ UNCHANGED <<calls, nalloc, got, modules, root, heap, order>>

\* c.services[name] = service; the deferred Unlock; return
Register(t) ==
    /\ Running(t)
    /\ Top(t).op = "Register"
    /\ Top(t).pc = "locked"
    /\ SetRegistry(DoRegister(Registry, Top(t).name, Top(t).val))
    /\ mutex' = [mutex EXCEPT !.writer = 0]
    /\ Return(t, Top(t), NoRes)
    /\ UNCHANGED <<calls, nalloc, got, modules, root, heap, order>>

RegisterSingleton(t) ==
    /\ Running(t)
    /\ Top(t).op = "RegisterSingleton"
    /\ Top(t).pc = "locked"
    /\ SetRegistry(DoRegisterSingleton(Registry, Top(t).name, Top(t).f))
    /\ mutex' = [mutex EXCEPT !.writer = 0]
    /\ Return(t, Top(t), NoRes)
    /\ UNCHANGED <<calls, nalloc, got, modules, root, heap, order>>

-----------------------------------------------------------------------------
(* Get and lazyService.getInstance *)

\* fault model: Get keeps its read lock while it resolves a lazyService
ReadersAfterGetHeld(t) == mutex.readers

\* c.mutex.RUnlock() before the type switch on service
ReadersAfterGet(t) == mutex.readers \ {t}

\* fault model: a Get that stores what it has read back into the map
GetValueInserting(t) ==
    /\ Running(t)
    /\ Top(t).op = "Get"
    /\ Top(t).pc = "locked"
    /\ services[Top(t).name].kind # "lazy"
    /\ mutex' = [mutex EXCEPT !.readers = @ \ {t}]
    /\ services' = [services EXCEPT ![Top(t).name] = ValEntry(@.val)]
    /\ Return(t, Top(t), Res(services[Top(t).name].val, NoErr, <<>>))
    /\ UNCHANGED <<lazies, calls, nalloc, bind, got, modules, root, heap, order>>

\* service := c.services[name]; RUnlock; a plain value is returned as it is
GetValue(t) ==
    /\ Running(t)
    /\ Top(t).op = "Get"
    /\ Top(t).pc = "locked"
    /\ services[Top(t).name].kind # "lazy"
    /\ mutex' = [mutex EXCEPT !.readers = @ \ {t}]
    /\ Return(t, Top(t), Res(services[Top(t).name].val, NoErr, <<>>))
    /\ UNCHANGED <<services, lazies, calls, nalloc, bind, got, modules, root, heap, order>>

\* fault model: a cycle detector, Get returns nil for a lazyService whose
\* factory is under way
GetLazyDetecting(t) ==
    /\ Running(t)
    /\ Top(t).op = "Get"
    /\ Top(t).pc = "locked"
    /\ services[Top(t).name].kind = "lazy"
    /\ mutex' = [mutex EXCEPT !.readers = ReadersAfterGet(t)]
    /\ IF lazies[services[Top(t).name].id].once = "running"
       THEN /\ Return(t, Top(t), Res(Nil, NoErr, <<>>))
       ELSE /\ SetTop(t, [Top(t) EXCEPT !.pc = "once", !.id = services[Top(t).name].id])
            /\ UNCHANGED ret
    /\ UNCHANGED <<services, lazies, calls, nalloc, bind, got, modules, root, heap, order>>

\* service := c.services[name]; RUnlock; service is a *lazyService
GetLazy(t) ==
    /\ Running(t)
    /\ Top(t).op = "Get"
    /\ Top(t).pc = "locked"
    /\ services[Top(t).name].kind = "lazy"
    /\ mutex' = [mutex EXCEPT !.readers = ReadersAfterGet(t)]
    /\ SetTop(t, [Top(t) EXCEPT !.pc = "once", !.id = services[Top(t).name].id])
    /\ UNCHANGED <<services, lazies, ret, calls, nalloc, bind, got, modules, root, heap, order>>

\* fault model: check-then-act without sync.Once
OnceCanEnterUnguarded(l) == l.once # "done"

\* sync.Once.Do runs its function only for the first caller
OnceCanEnter(l) == l.once = "idle"

\* ls.once.Do(func() { ls.instance = ls.factory(ls.container) }): the first
\* caller enters and calls the factory
OnceEnter(t) ==
    /\ Running(t)
    /\ Top(t).op = "Get"
    /\ Top(t).pc = "once"
    /\ OnceCanEnter(lazies[Top(t).id])
    /\ lazies' = [lazies EXCEPT ![Top(t).id].once = "running",
                                ![Top(t).id].runs = @ + 1]
    /\ Push(t, Top(t), FactoryFrame(lazies[Top(t).id].factory, Top(t).id))
    /\ UNCHANGED <<services, mutex, ret, calls, nalloc, bind, got, modules, root, heap, order>>

\* fault model: one gate for the whole container, so that a caller waits for
\* every construction under way
OnceDoneGlobal(id) ==
    /\ lazies[id].once = "done"
    /\ \A k \in 1..Len(lazies) : lazies[k].once # "running"

\* once.Do returns to a caller when the once of this lazyService is done
OnceDone(id) == lazies[id].once = "done"

\* fault model: the name is looked up again after the construction, and the
\* instance of whatever is bound to it then is returned
InstanceRelooked(t) ==
    IF services[Top(t).name].kind = "lazy"
    THEN lazies[services[Top(t).name].id].instance
    ELSE services[Top(t).name].val

\* ls.instance of the lazyService that Get has read from the map
InstanceOf(t) == lazies[Top(t).id].instance

\* fault model: getInstance returns ls.instance without waiting for the once
GetInstanceEarly(t) ==
    /\ Running(t)
    /\ Top(t).op = "Get"
    /\ Top(t).pc = "once"
    /\ lazies[Top(t).id].once # "idle"
    /\ got' = got \cup {<<t, Top(t).id, InstanceOf(t)>>}
    /\ Return(t, Top(t), Res(InstanceOf(t), NoErr, <<>>))
    /\ UNCHANGED <<services, lazies, mutex, calls, nalloc, bind, modules, root, heap, order>>

\* once.Do has completed (callers that arrive while it runs wait); return ls.instance
GetInstance(t) ==
    /\ Running(t)
    /\ Top(t).op = "Get"
    /\ Top(t).pc = "once"
    /\ OnceDone(Top(t).id)
    /\ got' = got \cup {<<t, Top(t).id, InstanceOf(t)>>}
    /\ Return(t, Top(t), Res(InstanceOf(t), NoErr, <<>>))
    /\ UNCHANGED <<services, lazies, mutex, calls, nalloc, bind, modules, root, heap, order>>

-----------------------------------------------------------------------------
(* A factory running inside once.Do *)

\* the factory makes its next call into the container
FactoryCall(t) ==
    /\ Running(t)
    /\ Top(t).op = "factory"
    /\ Top(t).pc = "start"
    /\ Top(t).i <= Len(Script(Top(t).f).calls)
    /\ Push(t, [Top(t) EXCEPT !.i = @ + 1, !.res = NoRes], Script(Top(t).f).calls[Top(t).i])
    /\ UNCHANGED <<services, lazies, mutex, ret, calls, nalloc, bind, got, modules, root, heap, order>>

\* the factory returns; ls.instance = <its result>; once is done
FactoryReturn(t) ==
    /\ Running(t)
    /\ Top(t).op = "factory"
    /\ Top(t).pc = "start"
    /\ Top(t).i > Len(Script(Top(t).f).calls)
    /\ Script(Top(t).f).end \in {"value", "nil"}
    /\ LET v == IF Script(Top(t).f).end = "value"
                THEN Instance(Top(t).f, nalloc + 1) ELSE Nil
       IN  lazies' = [lazies EXCEPT ![Top(t).id].instance = v,
                                    ![Top(t).id].once = "done"]
    /\ nalloc' = nalloc + 1
    /\ stack' = [stack EXCEPT ![t] = SubSeq(@, 1, Len(@) - 1)]
    /\ UNCHANGED <<services, mutex, ret, calls, bind, got, modules, root, heap, order>>

\* the factory panics: panic(...) in the factory function
FactoryPanic(t) ==
    /\ Running(t)
    /\ Top(t).op = "factory"
    /\ Top(t).pc = "start"
    /\ Top(t).i > Len(Script(Top(t).f).calls)
    /\ Script(Top(t).f).end = "panic"
    /\ SetTop(t, [Top(t) EXCEPT !.pc = "panic"])
    /\ UNCHANGED <<services, lazies, mutex, ret, calls, nalloc, bind, got, modules, root, heap, order>>

\* the index of the nearest factory frame of t below its top frame, 0 if none
OuterFactory(t) ==
    LET S == {k \in 1..(Len(stack[t]) - 1) : stack[t][k].op = "factory"}
    IN IF S = {} THEN 0 ELSE CHOOSE k \in S : \A l \in S : l <= k

\* fault model: a once whose function panicked may be entered again
OnceAfterPanicRetry == "idle"

\* sync.Once.Do marks the once done in a deferred call, also when f panics
OnceAfterPanic == "done"

\* the panic leaves once.Do (ls.instance is not assigned) and unwinds the
\* frames of getInstance, Get and their callers up to the next factory, which
\* it aborts in turn; with no factory left the goroutine's top-level call ends
\* with the panic
PanicUnwind(t) ==
    /\ Running(t)
    /\ Top(t).op = "factory"
    /\ Top(t).pc = "panic"
    /\ lazies' = [lazies EXCEPT ![Top(t).id].once = OnceAfterPanic,
                                ![Top(t).id].aborted = t]
    /\ LET k == OuterFactory(t)
       IN IF k = 0
          THEN /\ stack' = [stack EXCEPT ![t] = <<>>]
               /\ ret' = [ret EXCEPT ![t] = [done |-> TRUE, fr |-> stack[t][1],
                                             res |-> Res(Nil, Err("panic", "", ""), <<>>)]]
          ELSE /\ stack' = [stack EXCEPT ![t] =
                               [SubSeq(@, 1, k) EXCEPT ![k].pc = "panic"]]
               /\ UNCHANGED ret
    /\ UNCHANGED <<services, mutex, calls, nalloc, bind, got, modules, root, heap, order>>

-----------------------------------------------------------------------------
(* ListServices *)

\* fault model: only the names whose service has been constructed are listed
KeysResolved(svcs) ==
    {n \in Names : \/ svcs[n].kind = "val"
                   \/ svcs[n].kind = "lazy" /\ lazies[svcs[n].id].once = "done"}

\* the keys of the map c.services
Keys(svcs) == {n \in Names : svcs[n].kind # "absent"}

\* the orders in which a range over a map may yield the keys S: each key once
Enumerations(S) ==
    {f \in [1..Cardinality(S) -> S] :
        \A i, j \in 1..Cardinality(S) : f[i] = f[j] => i = j}

\* fault model: ListServices returns without the deferred RUnlock
ListServicesHolding(t) ==
    /\ Running(t)
    /\ Top(t).op = "ListServices"
    /\ Top(t).pc = "locked"
    /\ \E keys \in Enumerations(Keys(services)) :
          Return(t, Top(t), Res(Nil, NoErr, keys))
    /\ UNCHANGED <<services, lazies, mutex, calls, nalloc, bind, got, modules, root, heap, order>>

\* for name := range c.services { services = append(services, name) }; the
\* deferred RUnlock; return services
ListServices(t) ==
    /\ Running(t)
    /\ Top(t).op = "ListServices"
    /\ Top(t).pc = "locked"
    /\ mutex' = [mutex EXCEPT !.readers = @ \ {t}]
    /\ \E keys \in Enumerations(Keys(services)) :
          Return(t, Top(t), Res(Nil, NoErr, keys))
    /\ UNCHANGED <<services, lazies, calls, nalloc, bind, got, modules, root, heap, order>>

-----------------------------------------------------------------------------
(* Inject *)

InInject(t) == Running(t) /\ Top(t).op = "Inject"

FieldOf(fr) == StructType(fr.ty)[fr.i]

\* if targetValue.Kind() != reflect.Ptr { return error }
InjectNotPtr(t) ==
    /\ InInject(t)
    /\ Top(t).pc = "start"
    /\ ~Top(t).ptr
    /\ Return(t, Top(t), Res(Nil, Err("notptr", "", ""), <<>>))
    /\ UNCHANGED <<services, lazies, mutex, calls, nalloc, bind, got, modules, root, heap, order>>

\* the field is passed over: it has no inject tag, or it cannot be set
SkipsField(d) == d.tag = "" \/ ~d.canSet

\* fault model: a field that is passed over is reset to its zero value
InjectSkipClearing(t) ==
    /\ InInject(t)
    /\ Top(t).pc = "start"
    /\ Top(t).ptr
    /\ Top(t).i <= NumField(Top(t).ty)
    /\ SkipsField(FieldOf(Top(t)))
    /\ SetTop(t, [Top(t) EXCEPT !.fields[Top(t).i] = Nil, !.i = @ + 1])
    /\ UNCHANGED <<services, lazies, mutex, ret, calls, nalloc, bind, got, modules, root, heap, order>>

\* if injectTag == "" { continue }; if !field.CanSet() { continue }
InjectSkip(t) ==
    /\ InInject(t)
    /\ Top(t).pc = "start"
    /\ Top(t).ptr
    /\ Top(t).i <= NumField(Top(t).ty)
    /\ SkipsField(FieldOf(Top(t)))
    /\ SetTop(t, [Top(t) EXCEPT !.i = @ + 1])
    /\ UNCHANGED <<services, lazies, mutex, ret, calls, nalloc, bind, got, modules, root, heap, order>>

\* service := c.Get(injectTag)
InjectGet(t) ==
    /\ InInject(t)
    /\ Top(t).pc = "start"
    /\ Top(t).ptr
    /\ Top(t).i <= NumField(Top(t).ty)
    /\ ~SkipsField(FieldOf(Top(t)))
    /\ Push(t, [Top(t) EXCEPT !.pc = "got", !.res = NoRes], GetFrame(FieldOf(Top(t)).tag))
    /\ UNCHANGED <<services, lazies, mutex, ret, calls, nalloc, bind, got, modules, root, heap, order>>

\* fault model: a missing service is passed over instead of reported
InjectNotFoundContinue(t) ==
    /\ InInject(t)
    /\ Top(t).pc = "got"
    /\ Top(t).res.val = Nil
    /\ SetTop(t, [Top(t) EXCEPT !.gots = Append(@, <<Top(t).i, Nil>>),
                                !.i = @ + 1, !.pc = "start", !.res = NoRes])
    /\ UNCHANGED <<services, lazies, mutex, ret, calls, nalloc, bind, got, modules, root, heap, order>>

\* if service == nil { return fmt.Errorf("service '%s' not found for field '%s'", ...) }
InjectNotFound(t) ==
    /\ InInject(t)
    /\ Top(t).pc = "got"
    /\ Top(t).res.val = Nil
    /\ LET fr == [Top(t) EXCEPT !.gots = Append(@, <<Top(t).i, Nil>>)]
       IN Return(t, fr, Res(Nil, Err("notfound", FieldOf(fr).tag, FieldOf(fr).name), <<>>))
    /\ UNCHANGED <<services, lazies, mutex, calls, nalloc, bind, got, modules, root, heap, order>>

\* if !serviceValue.Type().AssignableTo(field.Type()) { return fmt.Errorf(...) }
InjectNotAssignable(t) ==
    /\ InInject(t)
    /\ Top(t).pc = "got"
    /\ Top(t).res.val # Nil
    /\ ~AssignableTo(TypeOf(Top(t).res.val), FieldOf(Top(t)).type)
    /\ LET fr == [Top(t) EXCEPT !.gots = Append(@, <<Top(t).i, Top(t).res.val>>)]
       IN Return(t, fr, Res(Nil, Err("notassignable", FieldOf(fr).tag, FieldOf(fr).name), <<>>))
    /\ UNCHANGED <<services, lazies, mutex, calls, nalloc, bind, got, modules, root, heap, order>>

\* field.Set(serviceValue)
InjectSet(t) ==
    /\ InInject(t)
    /\ Top(t).pc = "got"
    /\ Top(t).res.val # Nil
    /\ AssignableTo(TypeOf(Top(t).res.val), FieldOf(Top(t)).type)
    /\ SetTop(t, [Top(t) EXCEPT !.fields[Top(t).i] = Top(t).res.val,
                                !.gots = Append(@, <<Top(t).i, Top(t).res.val>>),
                                !.i = @ + 1, !.pc = "start", !.res = NoRes])
    /\ UNCHANGED <<services, lazies, mutex, ret, calls, nalloc, bind, got, modules, root, heap, order>>

\* the loop is over: return nil
InjectDone(t) ==
    /\ InInject(t)
    /\ Top(t).pc = "start"
    /\ Top(t).ptr
    /\ Top(t).i > NumField(Top(t).ty)
    /\ Return(t, Top(t), NoRes)
    /\ UNCHANGED <<services, lazies, mutex, calls, nalloc, bind, got, modules, root, heap, order>>

\* fmt.Errorf(format, args...): the text of the error Inject returns, as the
\* literal pieces of the format and the arguments put between them
Errorf(e) ==
    CASE e.kind = "notptr" -> <<"target must be a pointer">>
      [] e.kind = "notfound" ->
            <<"service '", e.svc, "' not found for field '", e.field, "'">>
      [] e.kind = "notassignable" ->
            <<"service '", e.svc, "' is not assignable to field '", e.field, "'">>
      [] OTHER -> <<>>

InjectStep(t) ==
    \/ InjectNotPtr(t)
    \/ InjectSkip(t)
    \/ InjectGet(t)
    \/ InjectNotFound(t)
    \/ InjectNotAssignable(t)
    \/ InjectSet(t)
    \/ InjectDone(t)

-----------------------------------------------------------------------------
(* GetTyped *)

True == Static("true")

False == Static("false")

InGetTyped(t) == Running(t) /\ Top(t).op = "GetTyped"

\* service := c.Get(name)
GetTypedGet(t) ==
    /\ InGetTyped(t)
    /\ Top(t).pc = "start"
    /\ Push(t, [Top(t) EXCEPT !.pc = "got", !.res = NoRes], GetFrame(Top(t).name))
    /\ UNCHANGED <<services, lazies, mutex, ret, calls, nalloc, bind, got, modules, root, heap, order>>

\* the frame of GetTyped with the service that Get returned noted
Served(t) == [Top(t) EXCEPT !.gots = <<Top(t).res.val>>]

\* if service == nil { return false }
GetTypedNil(t) ==
    /\ InGetTyped(t)
    /\ Top(t).pc = "got"
    /\ Top(t).res.val = Nil
    /\ Return(t, Served(t), Res(False, NoErr, <<>>))
    /\ UNCHANGED <<services, lazies, mutex, calls, nalloc, bind, got, modules, root, heap, order>>

\* if targetValue.Kind() != reflect.Ptr { return false }
GetTypedNotPtr(t) ==
    /\ InGetTyped(t)
    /\ Top(t).pc = "got"
    /\ Top(t).res.val # Nil
    /\ ~Top(t).ptr
    /\ Return(t, Served(t), Res(False, NoErr, <<>>))
    /\ UNCHANGED <<services, lazies, mutex, calls, nalloc, bind, got, modules, root, heap, order>>

\* targetValue.Elem().Type() of a nil pointer: Elem() is the zero Value, and
\* Type() of the zero Value panics
GetTypedNilPtr(t) ==
    /\ InGetTyped(t)
    /\ Top(t).pc = "got"
    /\ Top(t).res.val # Nil
    /\ Top(t).ptr
    /\ Top(t).nilptr
    /\ Len(stack[t]) = 1
    /\ Return(t, Served(t), Res(Nil, Err("panic", "", ""), <<>>))
    /\ UNCHANGED <<services, lazies, mutex, calls, nalloc, bind, got, modules, root, heap, order>>

\* if !serviceValue.Type().AssignableTo(targetValue.Elem().Type()) { return false }
GetTypedNotAssignable(t) ==
    /\ InGetTyped(t)
    /\ Top(t).pc = "got"
    /\ Top(t).res.val # Nil
    /\ Top(t).ptr
    /\ ~Top(t).nilptr
    /\ ~AssignableTo(TypeOf(Top(t).res.val), Top(t).ty)
    /\ Return(t, Served(t), Res(False, NoErr, <<>>))
    /\ UNCHANGED <<services, lazies, mutex, calls, nalloc, bind, got, modules, root, heap, order>>

\* targetValue.Elem().Set(serviceValue); return true
GetTypedSet(t) ==
    /\ InGetTyped(t)
    /\ Top(t).pc = "got"
    /\ Top(t).res.val # Nil
    /\ Top(t).ptr
    /\ ~Top(t).nilptr
    /\ AssignableTo(TypeOf(Top(t).res.val), Top(t).ty)
    /\ Return(t, [Served(t) EXCEPT !.fields[1] = Top(t).res.val], Res(True, NoErr, <<>>))
    /\ UNCHANGED <<services, lazies, mutex, calls, nalloc, bind, got, modules, root, heap, order>>

GetTypedStep(t) ==
    \/ GetTypedGet(t)
    \/ GetTypedNil(t)
    \/ GetTypedNotPtr(t)
    \/ GetTypedNilPtr(t)
    \/ GetTypedNotAssignable(t)
    \/ GetTypedSet(t)

-----------------------------------------------------------------------------
(* Provider, Module and RegisterModule *)

\* Provider{Name, Factory, Service}: Factory "" and Service Nil are Go's nil
Provider(name, f, v) == [Name |-> name, Factory |-> f, Service |-> v]

\* NewProvider(name, factory)
NewProvider(name, f) == Provider(name, f, Nil)

\* NewServiceProvider(name, service)
NewServiceProvider(name, v) == Provider(name, "", v)

\* BasicModule{providers, imports}; an import is the index of a module
BasicModule(ps, is) == [providers |-> ps, imports |-> is]

InRegisterModule(t) ==
    /\ Running(t)
    /\ Top(t).op = "RegisterModule"

\* fault model: the imports are visited last to first
GetImportsReversed(fr) ==
    [k \in 1..Len(modules[fr.m].imports) |->
        modules[fr.m].imports[Len(modules[fr.m].imports) + 1 - k]]

GetImports(fr) == modules[fr.m].imports

GetProviders(fr) == modules[fr.m].providers

\* fault model: a module's own providers are registered before its imports
PhaseProvidersFirst(fr) ==
    IF fr.j <= Len(GetProviders(fr)) THEN "providers"
    ELSE IF fr.i <= Len(GetImports(fr)) THEN "imports"
    ELSE "done"

\* the first loop (imports) runs to its end before the second (providers)
Phase(fr) ==
    IF fr.i <= Len(GetImports(fr)) THEN "imports"
    ELSE IF fr.j <= Len(GetProviders(fr)) THEN "providers"
    ELSE "done"

\* fault model: a cycle guard, an import that is on the call path is passed over
EntersImportGuarded(t, m) ==
    \A k \in 1..Len(stack[t]) : stack[t][k].op = "RegisterModule" => stack[t][k].m # m

\* RegisterModule calls itself for every import, whatever calls are under way
EntersImport(t, m) == TRUE

\* for _, importedModule := range module.GetImports() { c.RegisterModule(importedModule) }
\* (the callee only ever returns nil, so the err branch is never taken)
RegisterModuleImport(t) ==
    /\ InRegisterModule(t)
    /\ Top(t).pc = "start"
    /\ Phase(Top(t)) = "imports"
    /\ Len(stack[t]) < MaxDepth
    /\ IF EntersImport(t, GetImports(Top(t))[Top(t).i])
       THEN Push(t, [Top(t) EXCEPT !.i = @ + 1, !.res = NoRes],
                 RegisterModuleFrame(GetImports(Top(t))[Top(t).i]))
       ELSE SetTop(t, [Top(t) EXCEPT !.i = @ + 1])
    /\ UNCHANGED <<services, lazies, mutex, ret, calls, nalloc, bind, got, modules, root, heap, order>>

\* the recursion has used up the goroutine's stack: the runtime ends the
\* process ("fatal error: stack overflow"), no call returns
StackOverflow(t) ==
    /\ InRegisterModule(t)
    /\ Top(t).pc = "start"
    /\ Phase(Top(t)) = "imports"
    /\ Len(stack[t]) >= MaxDepth
    /\ SetTop(t, [Top(t) EXCEPT !.pc = "fatal"])
    /\ UNCHANGED <<services, lazies, mutex, ret, calls, nalloc, bind, got, modules, root, heap, order>>

AtProvider(t) ==
    /\ InRegisterModule(t)
    /\ Phase(Top(t)) = "providers"

ProviderOf(fr) == GetProviders(fr)[fr.j]

\* fault model: a provider counts as a factory provider only when its
\* Service is not set as well
IsFactoryProviderOnly(p) == p.Factory # "" /\ p.Service = Nil

\* if provider.Factory != nil
IsFactoryProvider(p) == p.Factory # ""

\* else if provider.Service != nil
IsServiceProvider(p) == p.Factory = "" /\ p.Service # Nil

\* c.RegisterSingleton(provider.Name, provider.Factory)
RegisterModuleFactory(t) ==
    /\ AtProvider(t)
    /\ IsFactoryProvider(ProviderOf(Top(t)))
    /\ Push(t, [Top(t) EXCEPT !.j = @ + 1, !.res = NoRes],
            RegisterSingletonFrame(ProviderOf(Top(t)).Name, ProviderOf(Top(t)).Factory))
    /\ UNCHANGED <<services, lazies, mutex, ret, calls, nalloc, bind, got, modules, root, heap, order>>

\* c.Register(provider.Name, provider.Service)
RegisterModuleService(t) ==
    /\ AtProvider(t)
    /\ IsServiceProvider(ProviderOf(Top(t)))
    /\ Push(t, [Top(t) EXCEPT !.j = @ + 1, !.res = NoRes],
            RegisterFrame(ProviderOf(Top(t)).Name, ProviderOf(Top(t)).Service))
    /\ UNCHANGED <<services, lazies, mutex, ret, calls, nalloc, bind, got, modules, root, heap, order>>

\* neither Factory nor Service is set: the provider is passed over
RegisterModuleSkip(t) ==
    /\ AtProvider(t)
    /\ ~IsFactoryProvider(ProviderOf(Top(t)))
    /\ ~IsServiceProvider(ProviderOf(Top(t)))
    /\ SetTop(t, [Top(t) EXCEPT !.j = @ + 1])
    /\ UNCHANGED <<services, lazies, mutex, ret, calls, nalloc, bind, got, modules, root, heap, order>>

\* fault model: RegisterModule reports a dependency that no provider supplies
RegisterModuleDoneValidating(t) ==
    /\ InRegisterModule(t)
    /\ Phase(Top(t)) = "done"
    /\ Return(t, Top(t), IF Keys(services) = Names THEN NoRes
                         ELSE Res(Nil, Err("notfound", "", ""), <<>>))
    /\ UNCHANGED <<services, lazies, mutex, calls, nalloc, bind, got, modules, root, heap, order>>

\* return nil
RegisterModuleDone(t) ==
    /\ InRegisterModule(t)
    /\ Phase(Top(t)) = "done"
    /\ Return(t, Top(t), NoRes)
    /\ UNCHANGED <<services, lazies, mutex, calls, nalloc, bind, got, modules, root, heap, order>>

RegisterModuleStep(t) ==
    \/ RegisterModuleImport(t)
    \/ RegisterModuleFactory(t)
    \/ RegisterModuleService(t)
    \/ RegisterModuleSkip(t)
    \/ RegisterModuleDone(t)

-----------------------------------------------------------------------------
(* Go slices and append: a slice is a view (array, len, cap) of a backing    *)
(* array; append writes in place while len < cap and otherwise copies into a *)
(* new array of doubled capacity                                             *)

NilSlice == [arr |-> 0, len |-> 0, cap |-> 0]

\* the elements of slice s
View(h, s) == IF s.len = 0 THEN <<>> ELSE SubSeq(h.arrays[s.arr], 1, s.len)

\* append(s, x): the new heap and the slice append returns
AppendSlice(h, s, x, zero) ==
    IF s.len < s.cap
    THEN [heap |-> [h EXCEPT !.arrays[s.arr][s.len + 1] = x],
          slice |-> [s EXCEPT !.len = @ + 1]]
    ELSE LET newcap == IF s.cap = 0 THEN 1 ELSE 2 * s.cap
             fresh == [k \in 1..newcap |->
                          IF k <= s.len THEN h.arrays[s.arr][k]
                          ELSE IF k = s.len + 1 THEN x ELSE zero]
         IN [heap |-> [h EXCEPT !.arrays = Append(@, fresh)],
             slice |-> [arr |-> Len(h.arrays) + 1, len |-> s.len + 1, cap |-> newcap]]

-----------------------------------------------------------------------------
(* ModuleBuilder *)

\* no builder has been made
NoHeap == [arrays |-> <<>>, builders |-> <<>>, built |-> <<>>, ops |-> 0]

\* the zero Provider{}
ZeroProvider == Provider("", "", Nil)

\* fault model: the Module reads the lists of the builder that built it
BuiltProvidersLive(h, k) == View(h, h.builders[h.built[k].b].providers)

\* BasicModule.GetProviders of the k-th Module built: bm.providers
BuiltProviders(h, k) == View(h, h.built[k].providers)

\* the Modules that the elements of slice s refer to, as indices
Referred(h, s) == [i \in 1..s.len |-> View(h, s)[i].ref]

\* fault model: the Module reads the import list of the builder that built it
BuiltImportsLive(h, k) == Referred(h, h.builders[h.built[k].b].imports)

\* BasicModule.GetImports of the k-th Module built: bm.imports
BuiltImports(h, k) == Referred(h, h.built[k].imports)

\* the Modules built so far, as GetProviders and GetImports present them
ModulesOf(h) ==
    [k \in 1..Len(h.built) |-> BasicModule(BuiltProviders(h, k), BuiltImports(h, k))]

\* a call of NewModule or of a ModuleBuilder method takes the heap to h
BuilderOp(h) ==
    /\ heap.ops < MaxOps
    /\ heap' = [h EXCEPT !.ops = @ + 1]
    /\ modules' = ModulesOf(h)
    /\ UNCHANGED <<services, lazies, mutex, stack, ret, calls, nalloc, bind, got, root, order>>

\* NewModule(): make([]Provider, 0), make([]Module, 0)
NewModule ==
    /\ Len(heap.builders) < Cardinality(Builders)
    /\ BuilderOp([heap EXCEPT !.builders =
                      Append(@, [providers |-> NilSlice, imports |-> NilSlice])])

\* mb.providers = append(mb.providers, provider)
AppendProvider(b, p) ==
    LET r == AppendSlice(heap, heap.builders[b].providers, p, ZeroProvider)
    IN BuilderOp([r.heap EXCEPT !.builders[b].providers = r.slice])

\* the Provider values a caller of AddProvider may pass: any Provider
ProviderArgs == {Provider("B", "fLeaf", Static("s2"))}

\* the arguments of AddService and AddFactory: the service, the factory may be nil
ServiceArgs == {<<"A", Static("s1")>>, <<"B", Nil>>}

FactoryArgs == {<<"A", "fDep">>}

AddProvider(b) ==
    /\ b \in 1..Len(heap.builders)
    /\ \E p \in ProviderArgs : AppendProvider(b, p)

AddService(b) ==
    /\ b \in 1..Len(heap.builders)
    /\ \E a \in ServiceArgs : AppendProvider(b, NewServiceProvider(a[1], a[2]))

AddFactory(b) ==
    /\ b \in 1..Len(heap.builders)
    /\ \E a \in FactoryArgs : AppendProvider(b, NewProvider(a[1], a[2]))

\* mb.imports = append(mb.imports, module); an element of the slice is a
\* reference to a Module (ref 0: the nil Module)
Import(b) ==
    /\ b \in 1..Len(heap.builders)
    /\ \E m \in 1..Len(heap.built) :
          LET r == AppendSlice(heap, heap.builders[b].imports, [ref |-> m], [ref |-> 0])
          IN BuilderOp([r.heap EXCEPT !.builders[b].imports = r.slice])

\* return &BasicModule{providers: mb.providers, imports: mb.imports}
Build(b) ==
    /\ b \in 1..Len(heap.builders)
    /\ BuilderOp([heap EXCEPT !.built =
                      Append(@, [b |-> b,
                                 providers |-> heap.builders[b].providers,
                                 imports |-> heap.builders[b].imports])])

BuilderStep ==
    \/ NewModule
    \/ \E b \in Builders : AddProvider(b) \/ AddService(b) \/ AddFactory(b) \/ Import(b) \/ Build(b)

-----------------------------------------------------------------------------
(* The container under concurrent callers *)


\* start-up registrations, before any goroutine uses the container
Startups ==
    {<<>>,
     <<RegisterSingletonFrame("A", "fDep"), RegisterSingletonFrame("B", "fLeaf")>>,
     <<RegisterSingletonFrame("A", "fWire")>>,
     <<RegisterFrame("A", Static("s1"))>>}

RECURSIVE Apply(_, _)
Apply(r, regs) ==
    IF regs = <<>> THEN r
    ELSE LET fr == Head(regs)
         IN Apply(IF fr.op = "Register" THEN DoRegister(r, fr.name, fr.val)
                  ELSE DoRegisterSingleton(r, fr.name, fr.f), Tail(regs))

Menu ==
    {GetFrame(n) : n \in Names}
    \cup {RegisterFrame("A", Static("s2")), RegisterSingletonFrame("A", "fLeaf"),
          ListServicesFrame,
          InjectFrame("S1", <<Nil, Static("p1"), Static("p2")>>, TRUE),
          InjectFrame("S1", ZeroFields("S1"), FALSE)}

InitWith(r) ==
    /\ services = r.services
    /\ lazies = r.lazies
    /\ bind = r.bind
    /\ mutex = [writer |-> 0, readers |-> {}]
    /\ stack = [t \in Threads |-> <<>>]
    /\ ret = [t \in Threads |-> NoRet]
    /\ calls = 0
    /\ got = {}

Init ==
    /\ nalloc = 0
    /\ \E regs \in Startups : InitWith(Apply(NewContainer, regs))
    /\ modules = <<>>
    /\ root = 0
    /\ heap = NoHeap
    /\ order = NewOrder

Step(t) ==
    \/ Lock(t)
    \/ RLock(t)
    \/ Register(t)
    \/ RegisterSingleton(t)
    \/ GetValue(t)
    \/ GetLazy(t)
    \/ OnceEnter(t)
    \/ GetInstance(t)
    \/ FactoryCall(t)
    \/ FactoryReturn(t)
    \/ ListServices(t)

Next == \E t \in Threads : Call(t, Menu) \/ Step(t) \/ InjectStep(t)

Spec == Init /\ [][Next]_vars

-----------------------------------------------------------------------------
(* RegisterModule over module graphs *)

\* what module k provides under its own, recognisable values
ModVal(k) == Static(<<"s1", "s2", "s3">>[k])

ModFac(k) == <<"fLeaf", "fDep", "fThird">>[k]

ProviderLists(k) ==
    CASE k = 1 -> {<<NewServiceProvider("A", ModVal(1))>>,
                   <<NewProvider("A", ModFac(1)), NewServiceProvider("B", ModVal(1))>>}
      [] k = 2 -> {<<>>,
                   <<NewProvider("A", ModFac(2))>>,
                   <<NewServiceProvider("A", Nil)>>}
      [] OTHER -> {<<>>,
                   <<NewServiceProvider("A", ModVal(3))>>,
                   <<NewProvider("A", ModFac(3)), NewServiceProvider("A", ModVal(3))>>,
                   <<Provider("B", ModFac(3), ModVal(3)), NewServiceProvider("B", Nil)>>}

\* the graphs ModuleBuilder can build from three modules: a module imports
\* only modules built before it
ModuleGraphs ==
    {<<BasicModule(p1, <<>>), BasicModule(p2, i2), BasicModule(p3, i3)>> :
        p1 \in ProviderLists(1), p2 \in ProviderLists(2), p3 \in ProviderLists(3),
        i2 \in {<<>>, <<1>>}, i3 \in {<<>>, <<1>>, <<2>>, <<1, 2>>, <<2, 1>>}}

ModuleMenu == {ListServicesFrame} \cup {GetFrame(n) : n \in Names}

\* the main goroutine has built the graph and calls RegisterModule(root) on a
\* new container; other goroutines may use the container meanwhile
InitModule ==
    /\ nalloc = 0
    /\ services = NewContainer.services
    /\ lazies = NewContainer.lazies
    /\ bind = NewContainer.bind
    /\ mutex = [writer |-> 0, readers |-> {}]
    /\ modules \in ModuleGraphs
    /\ root = Len(modules)
    /\ heap = NoHeap
    /\ order = NewOrder
    /\ stack = [t \in Threads |-> IF t = 1 THEN <<RegisterModuleFrame(root)>> ELSE <<>>]
    /\ ret = [t \in Threads |-> NoRet]
    /\ calls = 1
    /\ got = {}

NextModule == \E t \in Threads : Call(t, ModuleMenu) \/ Step(t) \/ RegisterModuleStep(t)

SpecModule == InitModule /\ [][NextModule]_vars

-----------------------------------------------------------------------------
(* Inject into targets, over registries *)

\* what start-up has registered under A and under B
InjectStartups ==
    {a \o b :
        a \in {<<>>, <<RegisterFrame("A", Static("s1"))>>, <<RegisterFrame("A", Static("s2"))>>,
               <<RegisterSingletonFrame("A", "fLeaf")>>, <<RegisterSingletonFrame("A", "fDep")>>},
        b \in {<<>>, <<RegisterFrame("B", Static("s1"))>>, <<RegisterFrame("B", Static("s2"))>>,
               <<RegisterSingletonFrame("B", "fLeaf")>>}}

\* targets: a new struct, or one whose fields already hold values
InjectMenu ==
    {InjectFrame("S1", ZeroFields("S1"), TRUE),
     InjectFrame("S1", <<Static("p1"), Static("p1"), Static("p2")>>, TRUE),
     InjectFrame("S2", <<Static("p1"), Static("p2"), Static("p1")>>, TRUE),
     InjectFrame("S2", ZeroFields("S2"), FALSE),
     RegisterFrame("B", Static("s2"))}

InitInject ==
    /\ nalloc = 0
    /\ \E regs \in InjectStartups : InitWith(Apply(NewContainer, regs))
    /\ modules = <<>>
    /\ root = 0
    /\ heap = NoHeap
    /\ order = NewOrder

NextInject ==
    \E t \in Threads :
        \/ Call(t, InjectMenu)
        \/ InjectStep(t)
        \/ RLock(t)
        \/ GetValue(t)
        \/ GetLazy(t)
        \/ OnceEnter(t)
        \/ GetInstance(t)
        \/ FactoryCall(t)
        \/ FactoryReturn(t)
        \/ Lock(t)
        \/ Register(t)

SpecInject == InitInject /\ [][NextInject]_vars

-----------------------------------------------------------------------------
(* Factories that panic or never return *)

\* A is built by a factory that hangs, panics or depends on B; B is a static
\* instance or is built by a factory that returns or panics
FaultStartups ==
    {<<RegisterSingletonFrame("A", f), b>> :
        f \in {"fHang", "fPanic", "fDep"},
        b \in {RegisterFrame("B", Static("s1")), RegisterSingletonFrame("B", "fLeaf"),
               RegisterSingletonFrame("B", "fPanic")}}

FaultMenu == {GetFrame(n) : n \in Names}

InitFault ==
    /\ nalloc = 0
    /\ \E regs \in FaultStartups : InitWith(Apply(NewContainer, regs))
    /\ modules = <<>>
    /\ root = 0
    /\ heap = NoHeap
    /\ order = NewOrder

\* the steps of a goroutine inside a call
FaultStep(t) ==
    \/ RLock(t)
    \/ GetValue(t)
    \/ GetLazy(t)
    \/ OnceEnter(t)
    \/ GetInstance(t)
    \/ FactoryCall(t)
    \/ FactoryReturn(t)
    \/ FactoryPanic(t)
    \/ PanicUnwind(t)

NextFault == \E t \in Threads : Call(t, FaultMenu) \/ FaultStep(t)

\* the Go scheduler runs every goroutine that can take a step
SpecFault == InitFault /\ [][NextFault]_vars /\ \A t \in Threads : WF_vars(FaultStep(t))

-----------------------------------------------------------------------------
(* Building Modules, and registering them *)

\* RegisterModule may be called with any Module built so far
BuilderMenu == {RegisterModuleFrame(m) : m \in 1..Len(modules)}

\* a new container and no builder yet
InitBuilder ==
    /\ nalloc = 0
    /\ InitWith(NewContainer)
    /\ modules = <<>>
    /\ root = 0
    /\ heap = NoHeap
    /\ order = NewOrder

\* the application builds Modules; one goroutine registers Modules that
\* have been built, while building goes on
NextBuilder ==
    \/ BuilderStep
    \/ Call(1, BuilderMenu)
    \/ RegisterModuleStep(1)
    \/ Lock(1)
    \/ Register(1)
    \/ RegisterSingleton(1)

SpecBuilder == InitBuilder /\ [][NextBuilder]_vars

-----------------------------------------------------------------------------
(* An application that assembles its Modules and then registers them *)

\* the application calls the builder and then registers one of the
\* Modules it has built
NextAssembled ==
    \/ calls = 0 /\ BuilderStep
    \/ calls = 0 /\ Call(1, BuilderMenu)
    \/ RegisterModuleStep(1)
    \/ Lock(1)
    \/ Register(1)
    \/ RegisterSingleton(1)

\* the goroutine goes on with a call it has started
SpecAssembled ==
    /\ InitBuilder
    /\ [][NextAssembled]_vars
    /\ WF_vars(RegisterModuleStep(1) \/ Lock(1) \/ Register(1) \/ RegisterSingleton(1))

-----------------------------------------------------------------------------
(* RegisterModule over import graphs with cycles *)

\* Module is an interface: an implementation's GetImports may lead back to
\* the module itself, directly or through other modules
CycleGraphs ==
    {<<BasicModule(<<NewServiceProvider("B", ModVal(1)), NewServiceProvider("A", Nil)>>, i1),
       BasicModule(<<NewProvider("A", ModFac(2))>>, i2),
       BasicModule(<<NewServiceProvider("A", ModVal(3))>>, i3)>> :
        i1 \in {<<>>, <<1>>, <<2>>, <<3>>},
        i2 \in {<<>>, <<1>>, <<2>>, <<3>>},
        i3 \in {<<>>, <<1>>, <<2>>, <<1, 2>>, <<2, 1>>, <<3>>}}

\* the main goroutine calls RegisterModule(root) on a new container
InitCycle ==
    /\ nalloc = 0
    /\ services = NewContainer.services
    /\ lazies = NewContainer.lazies
    /\ bind = NewContainer.bind
    /\ mutex = [writer |-> 0, readers |-> {}]
    /\ modules \in CycleGraphs
    /\ root = Len(modules)
    /\ heap = NoHeap
    /\ order = NewOrder
    /\ stack = [t \in Threads |-> IF t = 1 THEN <<RegisterModuleFrame(root)>> ELSE <<>>]
    /\ ret = [t \in Threads |-> NoRet]
    /\ calls = 1
    /\ got = {}

NextCycle ==
    \/ RegisterModuleStep(1)
    \/ StackOverflow(1)
    \/ Lock(1)
    \/ Register(1)
    \/ RegisterSingleton(1)

SpecCycle == InitCycle /\ [][NextCycle]_vars

-----------------------------------------------------------------------------
(* GetTyped over registries and targets *)

\* what start-up has registered under A
TypedStartups ==
    {<<>>,
     <<RegisterFrame("A", Static("s1"))>>,
     <<RegisterFrame("A", Static("s2"))>>,
     <<RegisterSingletonFrame("A", "fLeaf")>>,
     <<RegisterSingletonFrame("A", "fNil")>>}

\* targets: &v for a variable v of an interface or a concrete type, with or
\* without a value in it; a nil pointer; a value that is no pointer
TypedMenu ==
    {GetTypedFrame("A", "I1", Nil, TRUE, FALSE),
     GetTypedFrame("A", "T2", Static("p2"), TRUE, FALSE),
     GetTypedFrame("A", "any", Static("p1"), TRUE, FALSE),
     GetTypedFrame("A", "T1", Nil, TRUE, TRUE),
     GetTypedFrame("A", "T1", Static("p1"), FALSE, FALSE)}

InitTyped ==
    /\ nalloc = 0
    /\ \E regs \in TypedStartups : InitWith(Apply(NewContainer, regs))
    /\ modules = <<>>
    /\ root = 0
    /\ heap = NoHeap
    /\ order = NewOrder

NextTyped ==
    \E t \in Threads :
        \/ Call(t, TypedMenu)
        \/ GetTypedStep(t)
        \/ RLock(t)
        \/ GetValue(t)
        \/ GetLazy(t)
        \/ OnceEnter(t)
        \/ GetInstance(t)
        \/ FactoryReturn(t)

SpecTyped == InitTyped /\ [][NextTyped]_vars

-----------------------------------------------------------------------------
(* Modules whose factories depend on names that may not be supplied *)

\* root provides A by a factory that needs B (fDep calls Get("B"), fInj
\* injects a struct with a field of type T2 tagged B); the module it may
\* import supplies B or not, with a value of type T2 or of another type
DependencyGraphs ==
    {<<BasicModule(p1, <<>>), BasicModule(<<NewProvider("A", f)>>, i2)>> :
        p1 \in {<<NewServiceProvider("B", Nil)>>,
                <<NewServiceProvider("B", Static("s1"))>>,
                <<NewServiceProvider("B", Static("s2"))>>,
                <<NewProvider("B", "fLeaf")>>},
        f \in {"fDep", "fInj"},
        i2 \in {<<>>, <<1>>}}

DependencyMenu == {GetFrame("A")}

\* the main goroutine calls RegisterModule(root) on a new container
InitDependency ==
    /\ nalloc = 0
    /\ services = NewContainer.services
    /\ lazies = NewContainer.lazies
    /\ bind = NewContainer.bind
    /\ mutex = [writer |-> 0, readers |-> {}]
    /\ modules \in DependencyGraphs
    /\ root = Len(modules)
    /\ heap = NoHeap
    /\ order = NewOrder
    /\ stack = [t \in Threads |-> IF t = 1 THEN <<RegisterModuleFrame(root)>> ELSE <<>>]
    /\ ret = [t \in Threads |-> NoRet]
    /\ calls = 1
    /\ got = {}

NextDependency ==
    \E t \in Threads :
        \/ Call(t, DependencyMenu)
        \/ RegisterModuleStep(t)
        \/ Lock(t)
        \/ Register(t)
        \/ RegisterSingleton(t)
        \/ RLock(t)
        \/ GetValue(t)
        \/ GetLazy(t)
        \/ OnceEnter(t)
        \/ GetInstance(t)
        \/ FactoryCall(t)
        \/ FactoryReturn(t)
        \/ InjectSkip(t)
        \/ InjectGet(t)
        \/ InjectNotFound(t)
        \/ InjectNotAssignable(t)
        \/ InjectSet(t)
        \/ InjectDone(t)

SpecDependency == InitDependency /\ [][NextDependency]_vars

-----------------------------------------------------------------------------
(* Factories that depend on each other, under a fair scheduler *)

\* A is built from B, which a factory builds; or A's factory asks for A
\* itself; or A's factory asks for B, whose factory asks for A
LiveStartups ==
    {<<RegisterSingletonFrame("A", "fDep"), RegisterSingletonFrame("B", "fLeaf")>>,
     <<RegisterSingletonFrame("A", "fBack")>>,
     <<RegisterSingletonFrame("A", "fDep"), RegisterSingletonFrame("B", "fBack")>>}

LiveMenu ==
    {GetFrame(n) : n \in Names}
    \cup {RegisterFrame("B", Static("s2")), RegisterSingletonFrame("A", "fLeaf"),
          ListServicesFrame, InjectFrame("S3", ZeroFields("S3"), TRUE)}

\* the steps of a goroutine inside a call
LiveStep(t) ==
    \/ Lock(t)
    \/ RLock(t)
    \/ Register(t)
    \/ RegisterSingleton(t)
    \/ GetValue(t)
    \/ GetLazy(t)
    \/ OnceEnter(t)
    \/ GetInstance(t)
    \/ FactoryCall(t)
    \/ FactoryReturn(t)
    \/ ListServices(t)
    \/ InjectSkip(t)
    \/ InjectGet(t)
    \/ InjectNotFound(t)
    \/ InjectNotAssignable(t)
    \/ InjectSet(t)
    \/ InjectDone(t)

NextLive == \E t \in Threads : Call(t, LiveMenu) \/ LiveStep(t)

\* the Go scheduler runs every goroutine that can take a step
SpecLive ==
    /\ nalloc = 0
    /\ \E regs \in LiveStartups : InitWith(Apply(NewContainer, regs))
    /\ modules = <<>>
    /\ root = 0
    /\ heap = NoHeap
    /\ order = NewOrder
    /\ [][NextLive]_vars
    /\ \A t \in Threads : WF_vars(LiveStep(t))

-----------------------------------------------------------------------------
(* Names bound to nil *)

\* what start-up has registered under B: nothing, nil, a factory that
\* returns nil, or a value
NilStartups ==
    {<<>>,
     <<RegisterFrame("B", Nil)>>,
     <<RegisterSingletonFrame("B", "fNil")>>,
     <<RegisterFrame("B", Static("s2"))>>}

\* goroutines look B up, list the names, inject a struct with a field
\* tagged B, and register nil under B
NilMenu ==
    {GetFrame("B"), ListServicesFrame, RegisterFrame("B", Nil),
     InjectFrame("S3", <<Static("p1"), Static("p2")>>, TRUE)}

NextNil ==
    \E t \in Threads :
        \/ Call(t, NilMenu)
        \/ Lock(t)
        \/ Register(t)
        \/ RLock(t)
        \/ GetValue(t)
        \/ GetLazy(t)
        \/ OnceEnter(t)
        \/ GetInstance(t)
        \/ FactoryReturn(t)
        \/ ListServices(t)
        \/ InjectSkip(t)
        \/ InjectGet(t)
        \/ InjectNotFound(t)
        \/ InjectSet(t)
        \/ InjectDone(t)

SpecNil ==
    /\ nalloc = 0
    /\ \E regs \in NilStartups : InitWith(Apply(NewContainer, regs))
    /\ modules = <<>>
    /\ root = 0
    /\ heap = NoHeap
    /\ order = NewOrder
    /\ [][NextNil]_vars

-----------------------------------------------------------------------------
(* The life of an Order *)

\* a new Order beside a new container, and the methods called on it with
\* products p1 and p2, quantities and prices that are valid or not
SpecOrder ==
    /\ InitBuilder
    /\ [][\/ \E p \in {"p1", "p2"} : \E q \in {0, 1, 2} : \E u \in {0, 5} : AddItem(p, q, u)
          \/ \E p \in {"p1", "p2"} : RemoveItem(p)
          \/ \E p \in {"p1", "p2"} : \E q \in {0, 3} : UpdateItemQuantity(p, q)
          \/ ConfirmOrder
          \/ ShipOrder
          \/ DeliverOrder
          \/ CancelOrder]_vars

-----------------------------------------------------------------------------
(* Properties *)

LazyIds == 1..Len(lazies)

\* the frames of goroutine t
Frames(t) == {stack[t][k] : k \in 1..Len(stack[t])}

\* a completed top-level Get of name by t that no write to name overlapped
\* or followed
SettledGet(t, name) ==
    /\ ret[t].done
    /\ ret[t].fr.op = "Get"
    /\ ret[t].fr.name = name
    /\ ret[t].fr.ver = bind[name].ver

\* v is the value of the provider recorded as p: the static instance, or an
\* instance its factory made after the registration
ProvidedBy(p, v) ==
    CASE p.kind = "val" -> v = p.val
      [] p.kind = "fac" -> IF Script(p.f).end = "value"
                           THEN v.src = p.f /\ v.n > p.stamp
                           ELSE v = Nil
      [] OTHER -> v = Nil

\* C1: for one lazyService (one RegisterSingleton call), however many
\* goroutines call Get concurrently, the factory is executed at most once
\* (exactly once as soon as a Get has returned) and every Get through the
\* entry returns the same value, the one the factory returned.
C1_ExactlyOnce ==
    /\ \A id \in LazyIds : lazies[id].runs <= 1
    /\ \A g \in got :
          /\ lazies[g[2]].runs = 1
          /\ lazies[g[2]].once = "done"
          /\ g[3] = lazies[g[2]].instance
          /\ Script(lazies[g[2]].factory).end = "value" =>
                g[3].src = lazies[g[2]].factory /\ g[3].n >= 1
    /\ \A g1, g2 \in got : g1[2] = g2[2] => g1[3] = g2[3]

\* two goroutines have both returned the one instance of the same entry
C1_Witness ==
    \E g1, g2 \in got :
        /\ g1[1] # g2[1]
        /\ g1[2] = g2[2]
        /\ g1[3] = g2[3]
        /\ g1[3] # Nil
        /\ lazies[g1[2]].runs = 1

\* C3: after a name has been registered again, a Get that starts after the
\* last registration returns the value of the last provider registered,
\* whatever the earlier binding was (static, unresolved or resolved
\* factory); Register and RegisterSingleton return without error.
C3_Override ==
    \A t \in Threads :
        /\ \A n \in Names :
              SettledGet(t, n) /\ bind[n].ver >= 2 =>
                  /\ ProvidedBy(bind[n].prov, ret[t].res.val)
                  /\ ret[t].res.err = NoErr
        /\ ret[t].done /\ ret[t].fr.op \in {"Register", "RegisterSingleton"} =>
              ret[t].res = NoRes

\* "A" was bound to a factory that has been resolved, was then registered
\* again as a static instance, and a later Get("A") returned that instance
C3_Witness ==
    \E t \in Threads :
        /\ SettledGet(t, "A")
        /\ bind["A"].ver >= 2
        /\ bind["A"].prov.kind = "val"
        /\ ret[t].res.val = bind["A"].prov.val
        /\ \E id \in LazyIds :
              /\ lazies[id].factory = "fDep"
              /\ lazies[id].once = "done"
              /\ services["A"] # LazyEntry(id)

Holds(t) == mutex.writer = t \/ t \in mutex.readers

\* C6: the container mutex is held only by a goroutine whose innermost call
\* is in its map access (and so can release it at once); it is never held by
\* a call that is suspended in a factory, so the calls a factory makes into
\* the container (Get, Register, RegisterSingleton, ListServices, Inject)
\* find the mutex free of their own goroutine.
C6_MutexNotHeldInFactory ==
    \A t \in Threads :
        /\ Holds(t) <=> (Running(t) /\ Top(t).pc = "locked")
        /\ \A k \in 1..Len(stack[t]) :
              stack[t][k].op = "factory" =>
                 \A j \in 1..k : stack[t][j].pc # "locked"

\* the factory fWire has made all its calls into the container from inside
\* Get: Register, RegisterSingleton, ListServices and Inject have returned,
\* and its RegisterSingleton("B", fLeaf) is the binding of B
C6_Witness ==
    \E t \in Threads :
        /\ Running(t)
        /\ Top(t).op = "factory"
        /\ Top(t).f = "fWire"
        /\ Top(t).i > Len(Script("fWire").calls)
        /\ Top(t).res.err = NoErr
        /\ bind["B"].prov.f = "fLeaf"
        /\ services["B"].kind = "lazy"
        /\ lazies[services["B"].id].once = "done"

\* the result the top call of t hands over in this step
Handed(t) ==
    IF Len(stack[t]) = 1 THEN ret'[t].res ELSE stack'[t][Len(stack[t]) - 1].res

\* C7: Get of a name that was never registered returns nil without an error,
\* runs no factory and leaves the registry (and so ListServices) unchanged.
C7_AbsentGet ==
    [][\A t \in Threads :
          (/\ Running(t)
           /\ Top(t).op = "Get"
           /\ Top(t).pc = "locked"
           /\ bind[Top(t).name].ver = 0
           /\ stack'[t] # stack[t])
          => /\ Len(stack'[t]) = Len(stack[t]) - 1
             /\ Handed(t) = NoRes
             /\ services' = services
             /\ lazies' = lazies
             /\ nalloc' = nalloc]_vars

C7_Witness ==
    \E t \in Threads : \E n \in Names :
        /\ SettledGet(t, n)
        /\ bind[n].ver = 0
        /\ ret[t].res = NoRes
        /\ services[n] = Absent

\* the names that Register or RegisterSingleton has bound so far, called
\* directly, from a factory or by RegisterModule
EverBound == {n \in Names : bind[n].ver > 0}

\* C17: the names in the map are at every instant exactly the names bound so
\* far by Register and RegisterSingleton, each under one entry; no step
\* removes a name; and ListServices returns these names, the unresolved ones
\* included, each exactly once (in some order).
C17_ListServicesExact ==
    /\ []({n \in Names : services[n] # Absent} = EverBound)
    /\ [][/\ \A n \in Names : services[n] # Absent => services'[n] # Absent
          /\ \A t \in Threads :
                (/\ Running(t)
                 /\ Top(t).op = "ListServices"
                 /\ Top(t).pc = "locked"
                 /\ stack'[t] # stack[t])
                => LET ns == Handed(t).names
                   IN /\ Len(ns) = Cardinality(EverBound)
                      /\ {ns[k] : k \in 1..Len(ns)} = EverBound
                      /\ \A i, j \in 1..Len(ns) : ns[i] = ns[j] => i = j]_vars

\* ListServices has returned A and B while the factory entry that A was
\* registered to for the second time is not yet resolved
C17_Witness ==
    \E t \in Threads :
        /\ ret[t].done
        /\ ret[t].fr.op = "ListServices"
        /\ Len(ret[t].res.names) = 2
        /\ ret[t].res.names[1] # ret[t].res.names[2]
        /\ bind["A"].ver >= 2
        /\ services["A"].kind = "lazy"
        /\ lazies[services["A"].id].once = "idle"

-----------------------------------------------------------------------------
(* Properties of RegisterModule *)

RECURSIVE Flatten(_)
RECURSIVE FlattenAll(_)
\* the providers of the import tree of module m in post-order
Flatten(m) == FlattenAll(modules[m].imports) \o modules[m].providers

FlattenAll(ms) == IF ms = <<>> THEN <<>> ELSE Flatten(Head(ms)) \o FlattenAll(Tail(ms))

Registrable(p) == p.Factory # "" \/ p.Service # Nil

\* the index of the last registrable provider of name in ps, 0 if none
LastOf(ps, name) ==
    LET S == {k \in 1..Len(ps) : ps[k].Name = name /\ Registrable(ps[k])}
    IN IF S = {} THEN 0 ELSE CHOOSE k \in S : \A l \in S : l <= k

\* the binding of name is the one provider p gives
BoundTo(name, p) ==
    IF p.Factory # ""
    THEN /\ services[name].kind = "lazy"
         /\ lazies[services[name].id].factory = p.Factory
    ELSE services[name] = ValEntry(p.Service)

\* RegisterModule(root) has returned
Registered == \A t \in Threads : \A fr \in Frames(t) : fr.op # "RegisterModule"

\* C2: RegisterSingleton and RegisterModule never invoke a factory, nor does
\* ListServices: an entry is created uninvoked, and a factory is invoked only
\* by a step of a Get that has read the entry.
C2_LazyUntilGet ==
    [][\A id \in 1..Len(lazies') :
          LET before == IF id <= Len(lazies) THEN lazies[id].runs ELSE 0
          IN /\ id > Len(lazies) => lazies'[id].once = "idle" /\ lazies'[id].instance = Nil
             /\ lazies'[id].runs > before =>
                   \E t \in Threads :
                      /\ Running(t)
                      /\ Top(t).op = "Get"
                      /\ Top(t).pc = "once"
                      /\ Top(t).id = id
                      /\ stack'[t] # stack[t]]_vars

\* RegisterModule has returned having registered two factories, of which one
\* has since been invoked by a Get and the other not
C2_Witness ==
    /\ Registered
    /\ \E id1, id2 \in LazyIds : lazies[id1].runs = 1 /\ lazies[id2].runs = 0

\* v is the value of provider p
ValueOf(p, v) == IF p.Factory # "" THEN v.src = p.Factory ELSE v = p.Service

\* root and one of its imports both provide name
BothProvide(name) ==
    /\ LastOf(modules[root].providers, name) # 0
    /\ \E k \in 1..Len(modules[root].imports) :
          \E l \in 1..Len(modules[modules[root].imports[k]].providers) :
              modules[modules[root].imports[k]].providers[l].Name = name

C5_PostOrder ==
    Registered =>
        \A n \in Names :
            LET ps == Flatten(root)
                k == LastOf(ps, n)
            IN IF k = 0 THEN services[n] = Absent ELSE BoundTo(n, ps[k])

\* root imports 1 and 2 in some order, 2 imports 1, and the binding of A
\* comes from an import
C5_Witness ==
    /\ Registered
    /\ Len(modules[root].imports) = 2
    /\ modules[2].imports = <<1>>
    /\ LastOf(modules[root].providers, "A") = 0
    /\ LastOf(Flatten(root), "A") # 0
    /\ services["A"] # Absent

-----------------------------------------------------------------------------
(* Properties of factories that panic or never return *)

\* what name is bound to now: the static instance, or ls.instance
Bound(n) ==
    IF services[n].kind = "lazy" THEN lazies[services[n].id].instance
    ELSE services[n].val

\* name is bound to a static instance or to a lazyService whose once is done
Resolved(n) ==
    \/ services[n].kind = "val"
    \/ services[n].kind = "lazy" /\ lazies[services[n].id].once = "done"

\* t is inside the factory of an entry other than the binding of n (the
\* factory is running, or has hung)
Constructing(t, n) ==
    \E k \in 1..Len(stack[t]) :
        /\ stack[t][k].op = "factory"
        /\ lazies[stack[t][k].id].once = "running"
        /\ services[n] # LazyEntry(stack[t][k].id)

\* u has called Get(n) and not yet taken the read lock
StartsGet(u, n) ==
    /\ Len(stack[u]) = 1
    /\ Top(u).op = "Get"
    /\ Top(u).name = n
    /\ Top(u).pc = "start"

\* C12: a Get(B) that a goroutine starts while another goroutine is inside
\* the factory of a different entry (a factory that may never return), with
\* B bound to a static instance or to an entry already resolved, returns, and
\* returns B's value.
C12_UnrelatedGetCompletes ==
    \A u \in Threads : \A n \in Names :
        (StartsGet(u, n) /\ Resolved(n) /\ \E t \in Threads \ {u} : Constructing(t, n))
        ~> (/\ ret[u].done
            /\ ret[u].fr.op = "Get"
            /\ ret[u].fr.name = n
            /\ ret[u].res = Res(Bound(n), NoErr, <<>>))

\* the factory fHang of A has made its call and hangs; A's once is still
\* running; the other goroutine's Get("B") has returned B's value
C12_Witness ==
    \E t, u \in Threads :
        /\ t # u
        /\ Running(t)
        /\ Top(t).op = "factory"
        /\ Top(t).f = "fHang"
        /\ Top(t).i > Len(Script("fHang").calls)
        /\ lazies[Top(t).id].once = "running"
        /\ ret[u].done
        /\ ret[u].fr.op = "Get"
        /\ ret[u].fr.name = "B"
        /\ ret[u].res.val = Bound("B")
        /\ Bound("B") # Nil
        /\ calls = 2

\* the entries whose factory has panicked, or was aborted by a panic
Aborted == {id \in LazyIds : lazies[id].aborted # 0}

\* C13: an entry whose factory invocation panicked is consumed: its once is
\* done, its instance is nil, its factory has been invoked once and is never
\* invoked again, and every Get through the entry that returns, returns nil;
\* the panic itself never turns into a return: it unwinds the goroutine that
\* invoked the factory until its top-level call ends with the panic.
C13_PanicConsumesOnce ==
    /\ [](/\ \A id \in LazyIds : lazies[id].runs <= 1
          /\ \A id \in Aborted :
                /\ lazies[id].once = "done"
                /\ lazies[id].instance = Nil
                /\ lazies[id].runs = 1
          /\ \A g \in got : g[2] \in Aborted => g[3] = Nil)
    /\ [][\A t \in Threads :
             (Running(t) /\ Top(t).pc = "panic" /\ stack'[t] # stack[t]) =>
                 /\ Top(t).id \in {id \in 1..Len(lazies') : lazies'[id].aborted = t}
                 /\ lazies'[Top(t).id].once = "done"
                 /\ IF stack'[t] = <<>>
                    THEN ret'[t].done /\ ret'[t].res = Res(Nil, Err("panic", "", ""), <<>>)
                    ELSE /\ Len(stack'[t]) < Len(stack[t])
                         /\ stack'[t][Len(stack'[t])].op = "factory"
                         /\ stack'[t][Len(stack'[t])].pc = "panic"
                         /\ ret'[t] = ret[t]]_vars

\* the Get of t that invoked the factory ended with the panic; a Get of
\* the other goroutine through the same entry has returned nil
C13_Witness ==
    \E t, u \in Threads : \E id \in Aborted :
        /\ t # u
        /\ lazies[id].aborted = t
        /\ ret[t].done
        /\ ret[t].res.err.kind = "panic"
        /\ ret[u].done
        /\ ret[u].fr.op = "Get"
        /\ ret[u].fr.id = id
        /\ ret[u].res = NoRes
        /\ <<u, id, Nil>> \in got

-----------------------------------------------------------------------------
(* Properties of ModuleBuilder *)

\* C14: every Provider of every Module that Build has returned has a
\* non-empty name and exactly one of Factory and Service set.
C14_ExactlyOneOf ==
    \A k \in 1..Len(modules) :
        \A j \in 1..Len(modules[k].providers) :
            LET p == modules[k].providers[j]
            IN /\ p.Name # ""
               /\ (p.Factory # "") # (p.Service # Nil)

\* C15: no step changes the provider list or the import list of a Module
\* that Build has returned: not the later AddProvider, AddService,
\* AddFactory, Import and Build calls on the builder it came from (whose
\* slices share its backing arrays), and not the steps of RegisterModule on
\* it or on Modules that import it.
C15_BuiltModuleImmutable ==
    [][/\ Len(modules') >= Len(modules)
       /\ \A k \in 1..Len(modules) :
             /\ modules'[k] = modules[k]
             /\ BuiltProviders(heap', k) = BuiltProviders(heap, k)
             /\ BuiltImports(heap', k) = BuiltImports(heap, k)]_vars

\* a Module was built from three providers and registered; the builder has
\* since appended a fourth into the backing array it shares with the Module,
\* and the Module still lists its three
C15_Witness ==
    /\ Len(heap.built) >= 1
    /\ heap.built[1].providers.len = 3
    /\ heap.builders[1].providers.len = 4
    /\ heap.builders[1].providers.arr = heap.built[1].providers.arr
    /\ heap.arrays[heap.built[1].providers.arr][4] # ZeroProvider
    /\ Len(modules[1].providers) = 3
    /\ ret[1].done
    /\ ret[1].fr.op = "RegisterModule"
    /\ ret[1].fr.m = 1

-----------------------------------------------------------------------------
(* Properties of RegisterModule over graphs with cycles *)

\* the modules reached from the modules of S by at most n import steps
RECURSIVE ReachWithin(_, _)
ReachWithin(S, n) ==
    IF n = 0 THEN S
    ELSE ReachWithin(S \cup UNION {{modules[m].imports[k] :
                                       k \in 1..Len(modules[m].imports)} : m \in S}, n - 1)

\* the modules that m imports, directly or transitively
ImportsOf(m) ==
    ReachWithin({modules[m].imports[k] : k \in 1..Len(modules[m].imports)}, Len(modules))

\* the import graph reachable from m contains a cycle
ReachesCycle(m) == \E x \in ImportsOf(m) \cup {m} : x \in ImportsOf(x)

\* C16: a call RegisterModule(m) whose module reaches an import cycle never
\* returns, neither nil nor an error: its frame stays on the stack of the
\* goroutine for ever (the recursion goes on until the stack is used up).
C16_CycleNeverReturns ==
    [][\A t \in Threads : \A k \in 1..Len(stack[t]) :
          (stack[t][k].op = "RegisterModule" /\ ReachesCycle(stack[t][k].m)) =>
              /\ Len(stack'[t]) >= k
              /\ stack'[t][k].op = "RegisterModule"
              /\ stack'[t][k].m = stack[t][k].m
              /\ ret'[t] = NoRet]_vars

\* root imports module 1 and then module 2, which imports itself:
\* module 1 has been registered, and the recursion into 2 has used up the
\* stack
C16_Witness ==
    /\ modules[root].imports = <<1, 2>>
    /\ modules[2].imports = <<2>>
    /\ modules[1].imports = <<>>
    /\ services["B"] = ValEntry(ModVal(1))
    /\ Len(stack[1]) = MaxDepth
    /\ Top(1).pc = "fatal"
    /\ \A k \in 2..Len(stack[1]) : stack[1][k].m = 2
    /\ ~ret[1].done

-----------------------------------------------------------------------------
(* Properties of Inject *)

\* t has completed a top-level Inject with a pointer target
Injected(t) == ret[t].done /\ ret[t].fr.op = "Inject" /\ ret[t].fr.ptr

\* the fields Inject has looked up, in the order of the lookups, and what
\* Get returned for each: ret[t].fr.gots[k] = <<field index, value>>
Lookups(t) == ret[t].fr.gots

LookedUp(t) == {Lookups(t)[k][1] : k \in 1..Len(Lookups(t))}

\* C8: Inject looks the annotated fields up in declaration order; the first
\* lookup that Get answers with nil ends the call with an error that names
\* that service and that field; the fields injected before it keep the
\* injected values and every other field keeps its old value.
C8_FirstMissingAborts ==
    \A t \in Threads :
        Injected(t) =>
            LET fr == ret[t].fr
                g == Lookups(t)
                n == Len(g)
                decl == StructType(fr.ty)
            IN /\ \A k \in 1..n : decl[g[k][1]].tag # ""
               /\ \A k \in 1..(n - 1) : g[k][1] < g[k + 1][1]
               /\ \A k \in 1..n :
                     g[k][2] = Nil =>
                        /\ k = n
                        /\ ret[t].res.err =
                              Err("notfound", decl[g[k][1]].tag, decl[g[k][1]].name)
               /\ ret[t].res.err.kind = "notfound" =>
                     /\ n >= 1
                     /\ g[n][2] = Nil
                     /\ \A k \in 1..(n - 1) : fr.fields[g[k][1]] = g[k][2]
                     /\ \A j \in 1..Len(decl) :
                           (j >= g[n][1] \/ j \notin LookedUp(t)) => fr.fields[j] = fr.orig[j]

\* the first annotated field was injected, the service of the second is
\* absent: the error names the second, the first keeps its new value
C8_Witness ==
    \E t \in Threads :
        /\ Injected(t)
        /\ ret[t].fr.ty = "S1"
        /\ ret[t].res.err = Err("notfound", "B", "Repo")
        /\ Len(Lookups(t)) = 2
        /\ ret[t].fr.fields[1] # ret[t].fr.orig[1]
        /\ ret[t].fr.fields[1] = Lookups(t)[1][2]
        /\ ret[t].fr.fields[3] = ret[t].fr.orig[3]

\* a value of dynamic type vt may be stored in a field of type ft: the types
\* are identical, or ft is an interface that vt implements
Fits(vt, ft) == vt = ft \/ Implements(vt, ft)

\* C9: when the value Get returns for an annotated field does not fit the
\* field's type, Inject returns an error that names the service and the
\* field and leaves the field as it was; a value of the field's type, or one
\* that implements the field's interface type, is assigned to the field.
C9_TypeMismatch ==
    \A t \in Threads :
        Injected(t) =>
            LET fr == ret[t].fr
                g == Lookups(t)
                n == Len(g)
                decl == StructType(fr.ty)
            IN \A k \in 1..n :
                  g[k][2] # Nil =>
                     IF Fits(TypeOf(g[k][2]), decl[g[k][1]].type)
                     THEN fr.fields[g[k][1]] = g[k][2]
                     ELSE /\ k = n
                          /\ ret[t].res.err =
                                Err("notassignable", decl[g[k][1]].tag, decl[g[k][1]].name)
                          /\ fr.fields[g[k][1]] = fr.orig[g[k][1]]

\* a T1 value was assigned to the I1 field Svc, and the T1 value found for
\* the T2 field Repo was refused
C9_Witness ==
    \E t \in Threads :
        /\ Injected(t)
        /\ ret[t].fr.ty = "S1"
        /\ Len(Lookups(t)) = 2
        /\ TypeOf(Lookups(t)[1][2]) = "T1"
        /\ ret[t].fr.fields[1] = Lookups(t)[1][2]
        /\ TypeOf(Lookups(t)[2][2]) = "T1"
        /\ ret[t].res.err = Err("notassignable", "B", "Repo")
        /\ ret[t].fr.fields[3] = ret[t].fr.orig[3]

\* C10: when Inject returns nil, every field that carries an inject tag has
\* been looked up and holds the value Get returned for it.
C10_AllAnnotatedWired ==
    \A t \in Threads :
        (Injected(t) /\ ret[t].res.err = NoErr) =>
            \A j \in 1..NumField(ret[t].fr.ty) :
                StructType(ret[t].fr.ty)[j].tag # "" =>
                    \E k \in 1..Len(Lookups(t)) :
                        /\ Lookups(t)[k][1] = j
                        /\ ret[t].fr.fields[j] = Lookups(t)[k][2]

\* the un-annotated fields of the target of fr hold what they held at the
\* call, and no lookup was made for them
Untouched(fr) ==
    \A j \in 1..NumField(fr.ty) :
        StructType(fr.ty)[j].tag = "" =>
            /\ fr.fields[j] = fr.orig[j]
            /\ \A k \in 1..Len(fr.gots) : fr.gots[k][1] # j

\* C11: at every point of an Inject call and after it has returned, with or
\* without an error, each field without an inject tag holds the value it held
\* at the call and no lookup was made for it; every Get that Inject calls is
\* for the (non-empty) tag of the annotated field it is at.
C11_UnannotatedUntouched ==
    \A t \in Threads :
        /\ \A k \in 1..Len(stack[t]) :
              stack[t][k].op = "Inject" =>
                 /\ Untouched(stack[t][k])
                 /\ k < Len(stack[t]) =>
                       /\ stack[t][k + 1].op = "Get"
                       /\ stack[t][k + 1].name = FieldOf(stack[t][k]).tag
                       /\ stack[t][k + 1].name # ""
        /\ (ret[t].done /\ ret[t].fr.op = "Inject") => Untouched(ret[t].fr)

\* one Inject has returned nil and another an error; both assigned the
\* annotated field Svc and both left the un-annotated Count at its old,
\* non-nil value
C11_Witness ==
    \E t, u \in Threads :
        /\ Injected(t) /\ Injected(u)
        /\ ret[t].fr.ty = "S1" /\ ret[u].fr.ty = "S1"
        /\ ret[t].res.err = NoErr
        /\ ret[u].res.err # NoErr
        /\ ret[t].fr.fields[1] # ret[t].fr.orig[1]
        /\ ret[t].fr.fields[2] = Static("p1")
        /\ ret[u].fr.fields[2] = Static("p1")

-----------------------------------------------------------------------------
(* Properties of GetTyped *)

\* t has completed a top-level GetTyped
Typed(t) == ret[t].done /\ ret[t].fr.op = "GetTyped"

\* C18: GetTyped returns true with the service stored in *target when Get
\* returned a non-nil service, target is a pointer and the service fits the
\* pointee type; in every other case it returns false and *target holds
\* what it held.
C18_GetTypedExact ==
    \A t \in Threads :
        Typed(t) =>
            LET fr == ret[t].fr
                service == fr.gots[1]
            IN IF service # Nil /\ fr.ptr /\ Fits(TypeOf(service), fr.ty)
               THEN /\ ret[t].res = Res(True, NoErr, <<>>)
                    /\ fr.fields[1] = service
               ELSE /\ ret[t].res = Res(False, NoErr, <<>>)
                    /\ fr.fields[1] = fr.orig[1]

-----------------------------------------------------------------------------
(* Properties of lazily discovered dependencies *)

\* a call has returned to frame k of t that the dependency is missing or
\* has the wrong type: Inject returned an error, or Get("B") returned nil
Surfaced(t, k) ==
    LET fr == stack[t][k]
    IN \/ fr.res.err.kind \in {"notfound", "notassignable"}
       \/ /\ k = Len(stack[t])
          /\ fr.op = "factory"
          /\ fr.f = "fDep"
          /\ fr.i > 1
          /\ fr.res = NoRes

\* C19: RegisterModule returns nil for every acyclic graph, with the
\* factory of root registered (and not invoked by RegisterModule), whether
\* or not the name that factory depends on is supplied with a fitting
\* value; a missing or mistyped dependency is reported to no call of
\* RegisterModule, Register or RegisterSingleton: it appears only inside
\* the factory, once a Get has invoked it.
C19_NoUpfrontValidation ==
    \A t \in Threads :
        /\ (ret[t].done /\ ret[t].fr.op = "RegisterModule") =>
              /\ ret[t].res = NoRes
              /\ BoundTo("A", modules[root].providers[1])
        /\ ret[t].done => ret[t].res.err = NoErr
        /\ \A k \in 1..Len(stack[t]) :
              Surfaced(t, k) =>
                  /\ stack[t][k].op = "factory"
                  /\ lazies[stack[t][k].id].once = "running"
                  /\ lazies[stack[t][k].id].runs = 1

\* RegisterModule has returned nil though nothing supplies B; a Get("A")
\* of the other goroutine has invoked the factory, and Inject has just
\* returned "service not found" inside it
C19_Witness ==
    \E t, u \in Threads :
        /\ ret[t].done
        /\ ret[t].fr.op = "RegisterModule"
        /\ ret[t].res = NoRes
        /\ services["B"] = Absent
        /\ Running(u)
        /\ Top(u).op = "factory"
        /\ Top(u).f = "fInj"
        /\ Top(u).res.err = Err("notfound", "B", "Dep")

-----------------------------------------------------------------------------
(* Properties of Get racing Register *)

\* v is the value of the binding that provider p made: the static instance,
\* or the instance of the lazyService registered for p
ValueOfBinding(p, v) ==
    IF p.kind = "val" THEN v = p.val
    ELSE /\ lazies[p.id].once = "done"
         /\ v = lazies[p.id].instance

\* the entry that provider p put into the map
EntryOf(p) == IF p.kind = "val" THEN ValEntry(p.val) ELSE LazyEntry(p.id)

\* C20: a Get(X) that starts when X is bound returns the value of a binding
\* that X had at some moment between the call and the return: the binding
\* in place at the call, or one that a Register or RegisterSingleton running
\* concurrently put in its place; it returns nothing else, and not nil when
\* those bindings' values are not nil.  At every instant the map holds for X
\* the entry of the last write, whole.
C20_OldOrNewBinding ==
    /\ [](\A n \in Names :
             /\ Len(bind[n].hist) = bind[n].ver
             /\ bind[n].ver >= 1 => services[n] = EntryOf(bind[n].hist[bind[n].ver]))
    /\ [][\A t \in Threads :
             (/\ Running(t)
              /\ Top(t).op = "Get"
              /\ Top(t).ver >= 1
              /\ Len(stack'[t]) = Len(stack[t]) - 1)
             => /\ Handed(t).err = NoErr
                /\ \E k \in Top(t).ver..bind[Top(t).name].ver :
                      ValueOfBinding(bind[Top(t).name].hist[k], Handed(t).val)]_vars

\* Get("A") and Register("A", s2) ran concurrently over the binding of A to
\* a factory: the Get was called before the write and returned after it,
\* with the instance of the old binding; the new binding is in place
C20_Witness ==
    \E t \in Threads :
        /\ ret[t].done
        /\ ret[t].fr.op = "Get"
        /\ ret[t].fr.name = "A"
        /\ ret[t].fr.ver = 1
        /\ bind["A"].ver = 2
        /\ bind["A"].hist[1].kind = "fac"
        /\ ret[t].res.val = lazies[bind["A"].hist[1].id].instance
        /\ ret[t].res.val # Nil
        /\ services["A"] = ValEntry(Static("s2"))
        /\ calls = 2

-----------------------------------------------------------------------------
(* Properties of the life of a lazyService *)

\* the three conditions of a lazy entry
Unresolved(l) == l.once = "idle" /\ l.runs = 0 /\ l.instance = Nil

Resolving(l) == l.once = "running" /\ l.runs = 1 /\ l.instance = Nil

ResolvedEntry(l) == l.once = "done" /\ l.runs = 1

\* goroutine t is inside the factory of lazyService id
InFactory(t, id) == \E fr \in Frames(t) : fr.op = "factory" /\ fr.id = id

\* C21: a lazy entry is Unresolved, Resolving or Resolved and only moves
\* Unresolved -> Resolving -> Resolved; it is Resolving exactly while one
\* goroutine (the one caller that started the factory) is inside the factory;
\* a Get through the entry returns only when the entry is Resolved, with the
\* cached instance; a Resolved entry stays Resolved with the same instance.
C21_LazyLifecycle ==
    /\ [](\A id \in LazyIds :
             /\ Unresolved(lazies[id]) \/ Resolving(lazies[id]) \/ ResolvedEntry(lazies[id])
             /\ Resolving(lazies[id]) <=> \E t \in Threads : InFactory(t, id)
             /\ \A t, u \in Threads : InFactory(t, id) /\ InFactory(u, id) => t = u)
    /\ [][\A id \in LazyIds :
             /\ id \in 1..Len(lazies')
             /\ Unresolved(lazies[id]) =>
                   Unresolved(lazies'[id]) \/ Resolving(lazies'[id])
             /\ Resolving(lazies[id]) =>
                   Resolving(lazies'[id]) \/ ResolvedEntry(lazies'[id])
             /\ ResolvedEntry(lazies[id]) => lazies'[id] = lazies[id]
             /\ \A t \in Threads :
                   (/\ Running(t)
                    /\ Top(t).op = "Get"
                    /\ Top(t).pc = "once"
                    /\ Top(t).id = id
                    /\ Len(stack'[t]) = Len(stack[t]) - 1)
                   => /\ ResolvedEntry(lazies[id])
                      /\ Handed(t).val = lazies[id].instance]_vars

\* both goroutines have called Get through the same entry, and both have
\* returned the instance that the one factory run cached
C21_Witness ==
    \E id \in LazyIds :
        /\ ResolvedEntry(lazies[id])
        /\ lazies[id].instance # Nil
        /\ \A t \in Threads :
              /\ ret[t].done
              /\ ret[t].fr.op = "Get"
              /\ ret[t].fr.id = id
              /\ ret[t].res.val = lazies[id].instance

-----------------------------------------------------------------------------
(* Properties of the errors of Inject *)

\* what the text of error e mentions
Mentions(e) == {Errorf(e)[k] : k \in 1..Len(Errorf(e))}

\* the Inject of t has ended at a field whose service is registered but does
\* not fit the field's type
Mismatched(t) ==
    /\ Injected(t)
    /\ Lookups(t) # <<>>
    /\ Lookups(t)[Len(Lookups(t))][2] # Nil
    /\ ~Fits(TypeOf(Lookups(t)[Len(Lookups(t))][2]),
             StructType(ret[t].fr.ty)[Lookups(t)[Len(Lookups(t))][1]].type)

\* C22: the error Inject returns for a registered but non-assignable service
\* is a type-mismatch error that identifies the service name, the field,
\* the expected type (the field's) and the actual type (the service's).
C22_TypeMismatchIdentifies ==
    \A t \in Threads :
        Mismatched(t) =>
            LET g == Lookups(t)[Len(Lookups(t))]
                d == StructType(ret[t].fr.ty)[g[1]]
            IN /\ ret[t].res.err.kind = "notassignable"
               /\ {d.tag, d.name, d.type, TypeOf(g[2])} \subseteq Mentions(ret[t].res.err)

\* the part of C22 that the code does provide: the error is the one for a
\* service that is not assignable, and names the service and the field
C22_NamesServiceAndField ==
    \A t \in Threads :
        Mismatched(t) =>
            LET g == Lookups(t)[Len(Lookups(t))]
                d == StructType(ret[t].fr.ty)[g[1]]
            IN /\ ret[t].res.err.kind = "notassignable"
               /\ {d.tag, d.name} \subseteq Mentions(ret[t].res.err)
               /\ {d.type, TypeOf(g[2])} \cap Mentions(ret[t].res.err) = {}

-----------------------------------------------------------------------------
(* Properties of modules imported along more than one path *)

RECURSIVE Paths(_, _), PathsFrom(_, _)
\* the number of import paths that lead from module m to module x
Paths(m, x) ==
    IF m = x THEN 1 ELSE PathsFrom(modules[m].imports, x)

PathsFrom(ms, x) ==
    IF ms = <<>> THEN 0 ELSE Paths(Head(ms), x) + PathsFrom(Tail(ms), x)

\* the modules of the graph that provide name n
Providing(n) ==
    {m \in 1..Len(modules) :
        \E k \in 1..Len(modules[m].providers) : modules[m].providers[k].Name = n}

\* the lazyServices made for factory f whose factory has been started
Started(f) == {id \in LazyIds : lazies[id].factory = f /\ lazies[id].runs >= 1}

\* module m, of which p is a factory provider and which alone provides
\* p's name, is reached from the root along `paths` import paths or more
SoleFactoryProvider(m, p, paths) ==
    /\ Paths(root, m) >= paths
    /\ p.Factory # ""
    /\ Providing(p.Name) = {m}
    /\ Cardinality({k \in 1..Len(modules[m].providers) :
                       modules[m].providers[k].Name = p.Name}) = 1

\* the factory of p has run at most once, and all the Gets that went through
\* a lazyService of it have returned one and the same instance
SingletonOf(p) ==
    /\ Cardinality(Started(p.Factory)) <= 1
    /\ \A g1, g2 \in got :
          (lazies[g1[2]].factory = p.Factory /\ lazies[g2[2]].factory = p.Factory)
          => g1[3] = g2[3]

\* C23: when a module is reachable along two import paths of the graph given
\* to one RegisterModule call, each of its factory providers (here: of a name
\* that no other module provides) is a singleton: its factory runs at most
\* once and every Get of its name returns the same instance, also when Gets
\* run concurrently with the RegisterModule call.
C23_DiamondSingleton ==
    \A m \in 1..Len(modules) :
        \A k \in 1..Len(modules[m].providers) :
            SoleFactoryProvider(m, modules[m].providers[k], 2)
            => SingletonOf(modules[m].providers[k])

\* the same for the modules that are reached along one path only: what the
\* code does provide
C23_TreeSingleton ==
    \A m \in 1..Len(modules) :
        \A k \in 1..Len(modules[m].providers) :
            (/\ SoleFactoryProvider(m, modules[m].providers[k], 1)
             /\ Paths(root, m) = 1)
            => SingletonOf(modules[m].providers[k])

-----------------------------------------------------------------------------
(* Properties of registering a name again *)

\* the RegisterSingleton registrations performed for name n, by their
\* position in the history of n
Registrations(n) == {k \in 1..bind[n].ver : bind[n].hist[k].kind = "fac"}

\* the registrations of n whose factory has been invoked
Invoked(n) == {k \in Registrations(n) : lazies[bind[n].hist[k].id].runs >= 1}

\* C24: for every name the factory invocations made for it are at most as
\* many as the RegisterSingleton registrations performed for it: each
\* registration creates a lazyService of its own, Unresolved, whose factory
\* runs at most once; and a Get that is called after a name was registered
\* again (no write following) returns what the new entry's factory made,
\* after that registration, not the instance cached before.
C24_InvocationsPerRegistration ==
    /\ [](\A n \in Names :
             /\ \A k \in Registrations(n) :
                   /\ bind[n].hist[k].id \in LazyIds
                   /\ lazies[bind[n].hist[k].id].factory = bind[n].hist[k].f
                   /\ lazies[bind[n].hist[k].id].runs <= 1
             /\ \A k1, k2 \in Registrations(n) :
                   bind[n].hist[k1].id = bind[n].hist[k2].id => k1 = k2
             /\ Cardinality(Invoked(n)) <= Cardinality(Registrations(n))
             /\ \A t \in Threads :
                   (SettledGet(t, n) /\ bind[n].ver \in Registrations(n))
                   => /\ ret[t].fr.id = bind[n].prov.id
                      /\ lazies[bind[n].prov.id].runs = 1
                      /\ ret[t].res.val = lazies[bind[n].prov.id].instance
                      /\ ProvidedBy(bind[n].prov, ret[t].res.val))
    /\ [][\A n \in Names :
             (bind'[n].ver > bind[n].ver /\ bind'[n].prov.kind = "fac")
             => /\ bind'[n].prov.id \notin LazyIds
                /\ services'[n] = LazyEntry(bind'[n].prov.id)
                /\ lazies'[bind'[n].prov.id] = NewLazy(bind'[n].prov.f)]_vars

\* A was registered with a factory and resolved, registered again with a
\* factory, and the next Get has run the new entry's factory: two
\* registrations, two invocations, two different instances
C24_Witness ==
    /\ Cardinality(Registrations("A")) = 2
    /\ Cardinality(Invoked("A")) = 2
    /\ lazies[bind["A"].hist[1].id].instance # Nil
    /\ lazies[bind["A"].hist[2].id].instance # Nil
    /\ lazies[bind["A"].hist[1].id].instance # lazies[bind["A"].hist[2].id].instance
    /\ \E t \in Threads :
          /\ SettledGet(t, "A")
          /\ ret[t].res.val = lazies[bind["A"].hist[2].id].instance

-----------------------------------------------------------------------------
(* Properties of factories that depend on each other *)

\* the names that factory f asks the container for: by Get, or by Inject
\* for the fields of its target that carry a tag and can be set
Asks(f) ==
    LET c == Script(f).calls
    IN UNION {IF c[k].op = "Get" THEN {c[k].name}
              ELSE IF c[k].op = "Inject"
              THEN {StructType(c[k].ty)[i].tag :
                       i \in {j \in 1..NumField(c[k].ty) : ~SkipsField(StructType(c[k].ty)[j])}}
              ELSE {} : k \in 1..Len(c)}

\* the pairs <<name, factory>> of all RegisterSingleton registrations so far
EverRegistered ==
    UNION {{<<n, bind[n].hist[k].f>> : k \in Registrations(n)} : n \in Names}

\* the pairs <<name, factory>> that the map holds now
NowRegistered ==
    {<<n, lazies[services[n].id].factory>> : n \in {m \in Names : services[m].kind = "lazy"}}

\* under the registrations P, the factory of n calls Get(m)
CallsGet(P, n, m) == \E p \in P : p[1] = n /\ m \in Asks(p[2])

RECURSIVE Needs(_, _, _)
\* the names reached from the names S along CallsGet in at most k more steps
Needs(P, S, k) ==
    IF k = 0 THEN S
    ELSE Needs(P, S \cup {m \in Names : \E n \in S : CallsGet(P, n, m)}, k - 1)

\* n lies on a cycle of CallsGet
OnCycle(P, n) ==
    n \in Needs(P, {m \in Names : CallsGet(P, n, m)}, Cardinality(Names))

Acyclic(P) == \A n \in Names : ~OnCycle(P, n)

\* C25: every factory of the model returns; if the relation "the factory of
\* A calls Get(B)" over all registrations made is acyclic, every call of
\* Get, Inject, Register, RegisterSingleton and ListServices that a
\* goroutine has started returns, whatever the interleaving (weak fairness).
C25_EveryCallReturns ==
    \A t \in Threads :
        (Running(t) /\ Acyclic(EverRegistered)) ~> (~Running(t) /\ ret[t].done)

\* all MaxCalls calls were made, among them a registration, and a goroutine
\* has returned from a Get that waited for, or ran, the chain A -> B
C25_Witness ==
    /\ Acyclic(EverRegistered)
    /\ calls = MaxCalls
    /\ \A t \in Threads : ~Running(t) /\ ret[t].done
    /\ \E t \in Threads : ret[t].fr.op = "Get" /\ ret[t].fr.name = "A" /\ ret[t].res.val.src = "fDep"
    /\ \E t \in Threads : ret[t].fr.op \in {"Register", "RegisterSingleton", "ListServices", "Inject"}

\* goroutine t waits at the gate of a lazyService whose factory is under way
Gated(t) ==
    /\ Running(t)
    /\ Top(t).op = "Get"
    /\ Top(t).pc = "once"
    /\ lazies[Top(t).id].once = "running"

\* C26: while the factory of A calls Get(A), or calls Get(B) whose factory
\* calls Get(A), no Get of A (or of B) returns, to any goroutine: neither an
\* instance nor nil nor an error; the goroutines stay at the gates.
C26_CyclicGetNeverReturns ==
    [][\A t \in Threads :
          (/\ Running(t)
           /\ Top(t).op = "Get"
           /\ Len(stack'[t]) = Len(stack[t]) - 1)
          => ~OnCycle(NowRegistered, Top(t).name)]_vars

\* the cycle split across two goroutines: one is inside the factory of A
\* and waits at the gate of B, the other is inside the factory of B and
\* waits at the gate of A
C26_Witness ==
    /\ OnCycle(NowRegistered, "A")
    /\ \E t, u \in Threads :
          /\ t # u
          /\ Gated(t) /\ Top(t).name = "B" /\ InFactory(t, services["A"].id)
          /\ Gated(u) /\ Top(u).name = "A" /\ InFactory(u, services["B"].id)

\* the cycle in one goroutine: inside the factory of A it waits at A's gate
C26_SelfWitness ==
    \E t \in Threads :
        /\ Gated(t)
        /\ Top(t).name = "A"
        /\ Top(t).id = services["A"].id
        /\ InFactory(t, Top(t).id)

-----------------------------------------------------------------------------
(* Properties of names bound to nil *)

\* name n has been registered, and only ever with nil or with a factory
\* that returns nil
BoundToNil(n) ==
    /\ bind[n].ver >= 1
    /\ \A k \in 1..bind[n].ver :
          \/ bind[n].hist[k].kind = "val" /\ bind[n].hist[k].val = Nil
          \/ bind[n].hist[k].kind = "fac" /\ Script(bind[n].hist[k].f).end = "nil"

NeverRegistered(n) == bind[n].ver = 0

\* the annotated fields of struct type ty that Inject looks n up for
FieldsFor(ty, n) ==
    {i \in 1..NumField(ty) : ~SkipsField(StructType(ty)[i]) /\ StructType(ty)[i].tag = n}

\* what a goroutine's completed calls show for a name that has no service:
\* Get returned nil (and no error); Inject stopped at the first field
\* annotated with the name, with the not-found error for it
AsIfAbsent(n) ==
    \A t \in Threads :
        /\ (ret[t].done /\ ret[t].fr.op = "Get" /\ ret[t].fr.name = n)
           => ret[t].res = Res(Nil, NoErr, <<>>)
        /\ (Injected(t) /\ FieldsFor(ret[t].fr.ty, n) # {})
           => \E i \in FieldsFor(ret[t].fr.ty, n) :
                 /\ \A j \in FieldsFor(ret[t].fr.ty, n) : i <= j
                 /\ ret[t].res.err \in
                       {Err("notfound", n, StructType(ret[t].fr.ty)[i].name)}
                       \cup {Err("notfound", StructType(ret[t].fr.ty)[j].tag,
                                  StructType(ret[t].fr.ty)[j].name) : j \in 1..(i - 1)}
                       \cup {Err("notassignable", StructType(ret[t].fr.ty)[j].tag,
                                  StructType(ret[t].fr.ty)[j].name) : j \in 1..(i - 1)}
                 /\ ret[t].fr.fields[i] = ret[t].fr.orig[i]

\* C27: a name bound to nil (by Register(name, nil) or by a factory that
\* returns nil) is listed by ListServices, yet Get of it returns nil and
\* Inject reports "not found" for a field annotated with it, exactly as for
\* a name that was never registered.
C27_NilBoundAsAbsent ==
    /\ [](\A n \in Names : (BoundToNil(n) \/ NeverRegistered(n)) => AsIfAbsent(n))
    /\ [][\A t \in Threads :
             (/\ Running(t)
              /\ Top(t).op = "ListServices"
              /\ Len(stack'[t]) = Len(stack[t]) - 1)
             => \A n \in Names :
                   /\ BoundToNil(n) =>
                         \E k \in 1..Len(Handed(t).names) : Handed(t).names[k] = n
                   /\ NeverRegistered(n) =>
                         \A k \in 1..Len(Handed(t).names) : Handed(t).names[k] # n]_vars

\* B is bound to nil: one goroutine's ListServices has listed B, the
\* other's Inject has reported B as not found for the field Dep, after the
\* Get it made returned nil
C27_Witness ==
    /\ BoundToNil("B")
    /\ \E t, u \in Threads :
          /\ ret[t].done
          /\ ret[t].fr.op = "ListServices"
          /\ ret[t].res.names = <<"B">>
          /\ Injected(u)
          /\ ret[u].res.err = Err("notfound", "B", "Dep")
          /\ Lookups(u) = <<<<2, Nil>>>>
          /\ ret[u].fr.fields = ret[u].fr.orig

-----------------------------------------------------------------------------
(* Properties of how RegisterModule treats a provider *)

\* the registration that provider p calls for: a lazy factory entry when
\* Factory is set, a static value when only Service is set
RegistrationOf(p) ==
    IF p.Factory # "" THEN [kind |-> "fac", f |-> p.Factory, val |-> Nil]
    ELSE [kind |-> "val", f |-> "", val |-> p.Service]

\* the providers of name n that RegisterModule(root) comes by, in the order
\* of its walk, without those that have neither Factory nor Service
Supplied(n) == SelectSeq(Flatten(root), LAMBDA p : p.Name = n /\ Registrable(p))

\* the writes made to name n so far are those the first providers of
\* Supplied(n) call for, one write per provider
WrittenAsSupplied(n) ==
    /\ bind[n].ver <= Len(Supplied(n))
    /\ \A k \in 1..bind[n].ver :
          /\ bind[n].hist[k].kind = RegistrationOf(Supplied(n)[k]).kind
          /\ bind[n].hist[k].f = RegistrationOf(Supplied(n)[k]).f
          /\ bind[n].hist[k].val = RegistrationOf(Supplied(n)[k]).val

\* C28: RegisterModule registers a provider as a lazy factory entry whenever
\* its Factory is set (also when Service is set too), as a static value when
\* only Service is set, and passes over a provider with neither, which
\* leaves the earlier binding of that name in place; it returns nil.
C28_ProviderKinds ==
    /\ \A n \in Names : WrittenAsSupplied(n)
    /\ \A t \in Threads :
          (ret[t].done /\ ret[t].fr.op = "RegisterModule") => ret[t].res = NoRes
    /\ Registered =>
          \A n \in Names :
              /\ bind[n].ver = Len(Supplied(n))
              /\ IF Supplied(n) = <<>> THEN services[n] = Absent
                 ELSE BoundTo(n, Supplied(n)[Len(Supplied(n))])

\* root has a provider of B with Factory and Service both set, and after it
\* a provider of B with neither; an import provides B as a value: B was
\* written twice, first the import's value, then the factory, which stays
C28_Witness ==
    /\ Registered
    /\ ret[1].done
    /\ ret[1].fr.op = "RegisterModule"
    /\ ret[1].res = NoRes
    /\ modules[root].providers =
          <<Provider("B", ModFac(3), ModVal(3)), NewServiceProvider("B", Nil)>>
    /\ bind["B"].ver = 2
    /\ bind["B"].hist[1].kind = "val"
    /\ bind["B"].hist[2].kind = "fac"
    /\ services["B"].kind = "lazy"
    /\ lazies[services["B"].id].factory = ModFac(3)

-----------------------------------------------------------------------------
(* Properties of the graphs that ModuleBuilder assembles *)

\* the RegisterModule frames of goroutine t, bottom to top
ModuleFrames(t) == SelectSeq(stack[t], LAMBDA fr : fr.op = "RegisterModule")

\* C29: the Modules assembled with NewModule, AddService, AddFactory,
\* AddProvider, Import and Build form a finite acyclic graph: a Module
\* imports only Modules built before it, and its import list stays as it was
\* at Build; so the recursion of RegisterModule goes to ever earlier Modules,
\* and every RegisterModule call on such a Module returns, with nil.
C29_AssembledGraphTerminates ==
    /\ [](\A k \in 1..Len(modules) :
             \A i \in 1..Len(modules[k].imports) : modules[k].imports[i] \in 1..(k - 1))
    /\ [][\A k \in 1..Len(modules) :
             /\ k \in 1..Len(modules')
             /\ modules'[k].imports = modules[k].imports]_vars
    /\ [](\A i, j \in 1..Len(ModuleFrames(1)) :
             i < j => ModuleFrames(1)[i].m > ModuleFrames(1)[j].m)
    /\ (Running(1) /\ stack[1][1].op = "RegisterModule")
          ~> (/\ ~Running(1)
              /\ ret[1].done
              /\ ret[1].fr.op = "RegisterModule"
              /\ ret[1].res = NoRes)

\* three Modules were built, the third importing the first and the second,
\* the second importing the first; RegisterModule of the third has returned
\* nil, having registered the first twice
C29_Witness ==
    /\ Len(modules) = 3
    /\ modules[2].imports = <<1>>
    /\ modules[3].imports = <<1, 2>>
    /\ ~Running(1)
    /\ ret[1].done
    /\ ret[1].fr.op = "RegisterModule"
    /\ ret[1].fr.m = 3
    /\ ret[1].res = NoRes

-----------------------------------------------------------------------------
(* Properties of the life of an Order *)

ItemMethods == {"AddItem", "RemoveItem", "UpdateItemQuantity"}

\* the changes of status there are, each with the method that makes it
Transitions ==
    {<<"pending", "confirmed", "ConfirmOrder">>,
     <<"confirmed", "shipped", "ShipOrder">>,
     <<"shipped", "delivered", "DeliverOrder">>,
     <<"pending", "cancelled", "CancelOrder">>,
     <<"confirmed", "cancelled", "CancelOrder">>,
     <<"shipped", "cancelled", "CancelOrder">>}

====
